---------------------------- MODULE Spec2Model ----------------------------
(***************************************************************************)
(* Model of the httpx connection protocol engine of go-simple-http         *)
(* (src/httpx/reader.go): one accepted connection, its worker              *)
(* (handleConnection), the request parser (parseRequest), the request body *)
(* readers, the response encoder (writeToConnection) and the peer.         *)
(*                                                                         *)
(* Bytes are one-character strings.  A byte on the wire is a record        *)
(* [b, m, part, n, k]: b is the byte, and m, part, n and k are history     *)
(* information the peer attaches: the index of the message the byte        *)
(* belongs to, whether the peer sent it as part of the header block        *)
(* ("head"), as body content ("data") or as chunk framing of the body      *)
(* ("frame"), the number of content bytes of the message's body, and the   *)
(* position of the byte in the message.  The code only ever looks at b     *)
(* (see Chars).                                                            *)
(*                                                                         *)
(* Time is counted in seconds.  Only blocking operations (a read from the  *)
(* connection) take time; the statements between them take none.           *)
(***************************************************************************)
EXTENDS Integers, Sequences, FiniteSets, TLC

-----------------------------------------------------------------------------
(* Bounds of the model.                                                    *)

\* messages the peer sends on the connection
MaxMsgs == 2
\* the clock stops advancing here
MaxTime == 2
\* the largest MaxKeepAliveRequests a configuration is drawn with
MaxKeepAlive == 2
\* the MaxHeaderSize every configuration is drawn with
SmallHeaderSize == 48
\* the MaxRequestSize every configuration is drawn with
SmallRequestSize == 32
\* the longest body of the round trips
MaxBody == 3
\* the most reads of a body stream by the chunked writer
MaxReads == 3
\* the connections the listener accepts
MaxConns == 2

-----------------------------------------------------------------------------
(* Program constants (src/httpx/const.go).                                 *)

HTTP10Version == <<"H","T","T","P","/","1",".","0">>
HTTP11Version == <<"H","T","T","P","/","1",".","1">>
DefaultMaxRequestSize == 1048576
DefaultMaxHeaderSize == 8192
DefaultKeepAliveTimeout == 60
DefaultMaxKeepAliveRequests == 100
DefaultReadTimeout == 30
DefaultWriteTimeout == 30
DefaultChunkSize == 8192
ContentLengthHeader == <<"c","o","n","t","e","n","t","-","l","e","n","g","t","h">>
TransferEncodingHeader == <<"t","r","a","n","s","f","e","r","-","e","n","c","o","d","i","n","g">>
ConnectionHeader == <<"c","o","n","n","e","c","t","i","o","n">>
KeepAliveHeader == <<"k","e","e","p","-","a","l","i","v","e">>
ContentTypeHeader == <<"c","o","n","t","e","n","t","-","t","y","p","e">>
StatusBadRequest == 400
StatusInternalServerError == 500

CRLF == <<"\r","\n">>
chunked == <<"c","h","u","n","k","e","d">>
close == <<"c","l","o","s","e">>
keepalive == <<"k","e","e","p","-","a","l","i","v","e">>

-----------------------------------------------------------------------------
(* Byte-string functions of the Go library, as the parser uses them.       *)

Min(a, b) == IF a < b THEN a ELSE b

\* the bytes of a tagged byte sequence
Chars(s) == [i \in 1..Len(s) |-> s[i].b]

Take(s, n) == SubSeq(s, 1, Min(n, Len(s)))
Drop(s, n) == SubSeq(s, Min(n, Len(s)) + 1, Len(s))

\* unicode.IsSpace restricted to ASCII
IsSpace(c) == c \in {" ", "\t", "\n", "\r", "\f"}

UpperToLower ==
  [c \in {"A","B","C","D","E","F","G","H","I","J","K","L","M",
          "N","O","P","Q","R","S","T","U","V","W","X","Y","Z"} |->
     CASE c = "A" -> "a" [] c = "B" -> "b" [] c = "C" -> "c" [] c = "D" -> "d"
       [] c = "E" -> "e" [] c = "F" -> "f" [] c = "G" -> "g" [] c = "H" -> "h"
       [] c = "I" -> "i" [] c = "J" -> "j" [] c = "K" -> "k" [] c = "L" -> "l"
       [] c = "M" -> "m" [] c = "N" -> "n" [] c = "O" -> "o" [] c = "P" -> "p"
       [] c = "Q" -> "q" [] c = "R" -> "r" [] c = "S" -> "s" [] c = "T" -> "t"
       [] c = "U" -> "u" [] c = "V" -> "v" [] c = "W" -> "w" [] c = "X" -> "x"
       [] c = "Y" -> "y" [] c = "Z" -> "z"]

\* strings.ToLower
ToLower(s) ==
  [i \in 1..Len(s) |-> IF s[i] \in DOMAIN UpperToLower THEN UpperToLower[s[i]] ELSE s[i]]

\* index of the first occurrence of byte c in s at or after position i, 0 if none
RECURSIVE IndexFrom(_, _, _)
IndexFrom(s, c, i) ==
  IF i > Len(s) THEN 0
  ELSE IF s[i] = c THEN i
  ELSE IndexFrom(s, c, i + 1)

IndexByte(s, c) == IndexFrom(s, c, 1)

\* index of the first "\r\n" in s at or after position i, 0 if none
RECURSIVE IndexCRLF(_, _)
IndexCRLF(s, i) ==
  IF i + 1 > Len(s) THEN 0
  ELSE IF s[i] = "\r" /\ s[i + 1] = "\n" THEN i
  ELSE IndexCRLF(s, i + 1)

\* bytes.Split(s, "\r\n"): the pieces between separators, empty ones included
RECURSIVE SplitCRLF(_)
SplitCRLF(s) ==
  LET k == IndexCRLF(s, 1)
  IN  IF k = 0 THEN <<s>>
      ELSE <<SubSeq(s, 1, k - 1)>> \o SplitCRLF(SubSeq(s, k + 2, Len(s)))

RECURSIVE TrimLeft(_)
TrimLeft(s) ==
  IF s # <<>> /\ IsSpace(s[1]) THEN TrimLeft(Tail(s)) ELSE s

RECURSIVE TrimRight(_)
TrimRight(s) ==
  IF s # <<>> /\ IsSpace(s[Len(s)]) THEN TrimRight(SubSeq(s, 1, Len(s) - 1)) ELSE s

\* strings.TrimSpace
TrimSpace(s) == TrimRight(TrimLeft(s))

\* length of the longest prefix of s without white space
RECURSIVE WordLen(_)
WordLen(s) ==
  IF s = <<>> \/ IsSpace(s[1]) THEN 0 ELSE 1 + WordLen(Tail(s))

\* the line split at every single space
RECURSIVE Fields_SplitOnSpace(_)
Fields_SplitOnSpace(s) ==
  LET k == IndexFrom(s, " ", 1)
  IN  IF k = 0 THEN <<s>>
      ELSE <<SubSeq(s, 1, k - 1)>> \o Fields_SplitOnSpace(SubSeq(s, k + 1, Len(s)))

\* strings.Fields: the maximal runs of non-space bytes
RECURSIVE Fields(_)
Fields(s) ==
  LET t == TrimLeft(s)
  IN  IF t = <<>> THEN <<>>
      ELSE <<SubSeq(t, 1, WordLen(t))>> \o Fields(SubSeq(t, WordLen(t) + 1, Len(t)))

IsDigit(c) == c \in {"0","1","2","3","4","5","6","7","8","9"}

DigitVal(c) ==
  CASE c = "0" -> 0 [] c = "1" -> 1 [] c = "2" -> 2 [] c = "3" -> 3 [] c = "4" -> 4
    [] c = "5" -> 5 [] c = "6" -> 6 [] c = "7" -> 7 [] c = "8" -> 8 [] c = "9" -> 9

RECURSIVE DecVal(_)
DecVal(s) ==
  IF s = <<>> THEN 0 ELSE 10 * DecVal(SubSeq(s, 1, Len(s) - 1)) + DigitVal(s[Len(s)])

\* a parse that takes every value that is not a number for 0
ParseInt_Lenient(s) ==
  LET signed == s # <<>> /\ s[1] \in {"+", "-"}
      digits == IF signed THEN Tail(s) ELSE s
      good   == /\ digits # <<>>
                /\ Len(digits) <= 9
                /\ \A i \in 1..Len(digits) : IsDigit(digits[i])
  IN  IF ~good THEN [ok |-> TRUE, val |-> 0]
      ELSE [ok |-> TRUE,
            val |-> IF signed /\ s[1] = "-" THEN 0 - DecVal(digits) ELSE DecVal(digits)]

\* strconv.ParseInt(s, 10, 64): an optional sign and one or more decimal
\* digits.  ok is FALSE on a syntax error.  (Values of more than nine digits
\* are outside the integers of the model and are treated as range errors.)
ParseInt(s) ==
  LET signed == s # <<>> /\ s[1] \in {"+", "-"}
      digits == IF signed THEN Tail(s) ELSE s
      good   == /\ digits # <<>>
                /\ Len(digits) <= 9
                /\ \A i \in 1..Len(digits) : IsDigit(digits[i])
  IN  IF ~good THEN [ok |-> FALSE, val |-> 0]
      ELSE [ok |-> TRUE,
            val |-> IF signed /\ s[1] = "-" THEN 0 - DecVal(digits) ELSE DecVal(digits)]

DigitChar(d) ==
  CASE d = 0 -> "0" [] d = 1 -> "1" [] d = 2 -> "2" [] d = 3 -> "3" [] d = 4 -> "4"
    [] d = 5 -> "5" [] d = 6 -> "6" [] d = 7 -> "7" [] d = 8 -> "8" [] d = 9 -> "9"
    [] d = 10 -> "a" [] d = 11 -> "b" [] d = 12 -> "c" [] d = 13 -> "d"
    [] d = 14 -> "e" [] d = 15 -> "f"

RECURSIVE FormatNat(_, _)
FormatNat(n, base) ==
  IF n < base THEN <<DigitChar(n)>>
  ELSE FormatNat(n \div base, base) \o <<DigitChar(n % base)>>

\* strconv.FormatInt(n, 10) and fmt.Sprintf("%d", n)
FormatInt(n) == IF n < 0 THEN <<"-">> \o FormatNat(0 - n, 10) ELSE FormatNat(n, 10)

\* fmt.Sprintf("%x", n) for n >= 0
FormatHex(n) == FormatNat(n, 16)

-----------------------------------------------------------------------------
(* Go maps with byte-string keys: functions on a finite set of keys.       *)

EmptyMap == [k \in {} |-> <<>>]

MapPut(h, k, v) == [x \in (DOMAIN h) \cup {k} |-> IF x = k THEN v ELSE h[x]]

Has(h, k) == k \in DOMAIN h

-----------------------------------------------------------------------------
(* NewHTTPServer: a zero field of the configuration gets its default.      *)

NewHTTPServer(cfg) ==
  [maxRequestSize       |-> IF cfg.MaxRequestSize = 0 THEN DefaultMaxRequestSize
                            ELSE cfg.MaxRequestSize,
   maxHeaderSize        |-> IF cfg.MaxHeaderSize = 0 THEN DefaultMaxHeaderSize
                            ELSE cfg.MaxHeaderSize,
   readTimeout          |-> IF cfg.ReadTimeout = 0 THEN DefaultReadTimeout
                            ELSE cfg.ReadTimeout,
   writeTimeout         |-> IF cfg.WriteTimeout = 0 THEN DefaultWriteTimeout
                            ELSE cfg.WriteTimeout,
   keepAliveTimeout     |-> IF cfg.KeepAliveTimeout = 0 THEN DefaultKeepAliveTimeout
                            ELSE cfg.KeepAliveTimeout,
   maxKeepAliveRequests |-> IF cfg.MaxKeepAliveRequests = 0 THEN DefaultMaxKeepAliveRequests
                            ELSE cfg.MaxKeepAliveRequests,
   enableKeepAlive      |-> cfg.EnableKeepAlive,
   hasHandler           |-> cfg.HasHandler]

-----------------------------------------------------------------------------
(* parseRequest, from the header block it has read to the request.         *)

NilRequest ==
  [Method |-> <<>>, Path |-> <<>>, Version |-> <<>>, Headers |-> EmptyMap,
   BodySize |-> 0, IsChunked |-> FALSE, Body |-> "nil"]

\* the header loop with names kept as the peer spelled them
RECURSIVE ParseHeaders_CaseSensitive(_, _, _)
ParseHeaders_CaseSensitive(lines, i, h) ==
  IF i > Len(lines) - 1 THEN h
  ELSE LET line  == TrimSpace(lines[i])
           colon == IndexByte(line, ":")
       IN  IF line = <<>> \/ colon = 0 THEN ParseHeaders_CaseSensitive(lines, i + 1, h)
           ELSE ParseHeaders_CaseSensitive(lines, i + 1,
                  MapPut(h, TrimSpace(SubSeq(line, 1, colon - 1)),
                            TrimSpace(SubSeq(line, colon + 1, Len(line)))))

\* the header loop: lines[i] for i = 1 .. len(lines)-2 of the Go slice, which
\* are the elements 2 .. Len(lines)-1 here
\* a header loop that ends at the first line without a colon
RECURSIVE ParseHeaders_StopsAtNoColon(_, _, _)
ParseHeaders_StopsAtNoColon(lines, i, h) ==
  IF i > Len(lines) - 1 THEN h
  ELSE LET line  == TrimSpace(lines[i])
           colon == IndexByte(line, ":")
       IN  IF line = <<>> THEN ParseHeaders_StopsAtNoColon(lines, i + 1, h)
           ELSE IF colon = 0 THEN h
           ELSE ParseHeaders_StopsAtNoColon(lines, i + 1,
                  MapPut(h, ToLower(TrimSpace(SubSeq(line, 1, colon - 1))),
                            TrimSpace(SubSeq(line, colon + 1, Len(line)))))

RECURSIVE ParseHeaders(_, _, _)
ParseHeaders(lines, i, h) ==
  IF i > Len(lines) - 1 THEN h
  ELSE LET line  == TrimSpace(lines[i])
           colon == IndexByte(line, ":")
       IN  IF line = <<>> \/ colon = 0 THEN ParseHeaders(lines, i + 1, h)
           ELSE ParseHeaders(lines, i + 1,
                  MapPut(h, ToLower(TrimSpace(SubSeq(line, 1, colon - 1))),
                            TrimSpace(SubSeq(line, colon + 1, Len(line)))))

\* the request built from the bytes of a complete header block, or the error
ParseHeaderBlock(headerData) ==
  LET lines       == SplitCRLF(headerData)
      requestLine == Fields(lines[1])
      headers     == ParseHeaders(lines, 2, EmptyMap)
      base        == [Method |-> requestLine[1], Path |-> requestLine[2],
                      Version |-> requestLine[3], Headers |-> headers,
                      BodySize |-> 0 - 1, IsChunked |-> FALSE, Body |-> "nil"]
  IN  IF Len(requestLine) # 3
        THEN [err |-> "invalid request line", req |-> NilRequest]
      ELSE IF Has(headers, ContentLengthHeader)
        THEN LET length == ParseInt(headers[ContentLengthHeader])
             IN  IF length.ok
                   THEN [err |-> "",
                         req |-> [base EXCEPT !.BodySize = length.val, !.Body = "limit"]]
                   ELSE [err |-> "invalid content-length", req |-> NilRequest]
      ELSE IF Has(headers, TransferEncodingHeader)
              /\ ToLower(headers[TransferEncodingHeader]) = chunked
        THEN [err |-> "", req |-> [base EXCEPT !.IsChunked = TRUE, !.Body = "chunked"]]
      ELSE [err |-> "", req |-> [base EXCEPT !.BodySize = 0, !.Body = "empty"]]

-----------------------------------------------------------------------------
(* shouldKeepConnectionAlive                                               *)

\* the decision with the connection header compared as the peer spelled it
shouldKeepConnectionAlive_CaseSensitive(s, req) ==
  IF ~s.enableKeepAlive THEN FALSE
  ELSE IF req.Version = HTTP11Version
    THEN IF Has(req.Headers, ConnectionHeader)
           THEN req.Headers[ConnectionHeader] # close
           ELSE TRUE
  ELSE IF req.Version = HTTP10Version
    THEN IF Has(req.Headers, ConnectionHeader)
           THEN req.Headers[ConnectionHeader] = keepalive
           ELSE FALSE
  ELSE FALSE

\* the decision taken without regard to enableKeepAlive
shouldKeepConnectionAlive_IgnoresConfig(s, req) ==
  IF req.Version = HTTP11Version
    THEN IF Has(req.Headers, ConnectionHeader)
           THEN ToLower(req.Headers[ConnectionHeader]) # close
           ELSE TRUE
  ELSE IF req.Version = HTTP10Version
    THEN IF Has(req.Headers, ConnectionHeader)
           THEN ToLower(req.Headers[ConnectionHeader]) = keepalive
           ELSE FALSE
  ELSE FALSE

shouldKeepConnectionAlive(s, req) ==
  IF ~s.enableKeepAlive THEN FALSE
  ELSE IF req.Version = HTTP11Version
    THEN IF Has(req.Headers, ConnectionHeader)
           THEN ToLower(req.Headers[ConnectionHeader]) # close
           ELSE TRUE
  ELSE IF req.Version = HTTP10Version
    THEN IF Has(req.Headers, ConnectionHeader)
           THEN ToLower(req.Headers[ConnectionHeader]) = keepalive
           ELSE FALSE
  ELSE FALSE

-----------------------------------------------------------------------------
(* Responses.  A body is [kind, data]: kind "nil" is no body, "seeker" a    *)
(* reader that can seek (strings.NewReader, bytes.NewReader), "pipe" a     *)
(* reader that has a Seek method which fails (an os.File on a pipe),       *)
(* "stream" a reader without Seek; data is what is left to read from it.   *)

NoBody == [kind |-> "nil", data |-> <<>>, pos |-> 0]

\* the bytes of a body stream from its current position on
Unread(body) == Drop(body.data, body.pos)

\* getContentLength: the body size of a response the handler returned
\* the size of a seekable body taken from its start, whatever was read of it
getContentLength_WholeSize(res) ==
  CASE res.Body.kind = "nil"    -> res
    [] res.Body.kind = "seeker" -> [res EXCEPT !.bodySize = Len(res.Body.data)]
    [] res.Body.kind = "pipe"   -> [res EXCEPT !.bodySize = 0 - 1]
    [] res.Body.kind = "stream" ->
         [res EXCEPT !.bodySize = Len(Unread(res.Body)),
                     !.Body = [kind |-> "seeker", data |-> Unread(res.Body), pos |-> 0]]

getContentLength(res) ==
  CASE res.Body.kind = "nil"    -> res
    [] res.Body.kind = "seeker" ->
         [res EXCEPT !.bodySize = Len(res.Body.data) - res.Body.pos]
    [] res.Body.kind = "pipe"   -> [res EXCEPT !.bodySize = 0 - 1]
    [] res.Body.kind = "stream" ->
         [res EXCEPT !.bodySize = Len(Unread(res.Body)),
                     !.Body = [kind |-> "seeker", data |-> Unread(res.Body), pos |-> 0]]

\* max counted without the request being answered
Annotate_MaxBeforeCount(s, res, shouldKeepAlive, requestCount) ==
  IF shouldKeepAlive
    THEN [res EXCEPT !.Headers =
            MapPut(MapPut(res.Headers, ConnectionHeader, keepalive),
                   KeepAliveHeader,
                   <<"t","i","m","e","o","u","t","=">> \o FormatInt(s.keepAliveTimeout)
                     \o <<","," ","m","a","x","=">>
                     \o FormatInt(s.maxKeepAliveRequests - requestCount + 1))]
    ELSE [res EXCEPT !.Headers = MapPut(res.Headers, ConnectionHeader, close)]

\* the connection headers of lines 393-405
Annotate(s, res, shouldKeepAlive, requestCount) ==
  IF shouldKeepAlive
    THEN [res EXCEPT !.Headers =
            MapPut(MapPut(res.Headers, ConnectionHeader, keepalive),
                   KeepAliveHeader,
                   <<"t","i","m","e","o","u","t","=">> \o FormatInt(s.keepAliveTimeout)
                     \o <<","," ","m","a","x","=">>
                     \o FormatInt(s.maxKeepAliveRequests - requestCount))]
    ELSE [res EXCEPT !.Headers = MapPut(res.Headers, ConnectionHeader, close)]

\* the sequences of read sizes in which a body of n bytes can be read, each
\* read returning between 1 and max bytes
RECURSIVE ReadSplits(_, _)
ReadSplits(n, max) ==
  IF n = 0 THEN {<<>>}
  ELSE UNION {{<<k>> \o rest : rest \in ReadSplits(n - k, max)} : k \in 1..Min(n, max)}

\* writeChunkedBody: one frame per read, then the final chunk
RECURSIVE ChunkFrames(_, _)
ChunkFrames(data, sizes) ==
  IF sizes = <<>> THEN <<"0","\r","\n","\r","\n">>
  ELSE FormatHex(sizes[1]) \o CRLF \o SubSeq(data, 1, sizes[1]) \o CRLF
         \o ChunkFrames(SubSeq(data, sizes[1] + 1, Len(data)), Tail(sizes))

\* the framing headers writeToConnection adds (lines 211-215)
FramingHeaders(r) ==
  IF r.bodySize >= 0
    THEN MapPut(r.Headers, ContentLengthHeader, FormatInt(r.bodySize))
  ELSE IF r.Body.kind # "nil"
    THEN MapPut(r.Headers, TransferEncodingHeader, chunked)
  ELSE r.Headers

\* every body written as chunk frames
BodyBytes_Framed(r, sizes) ==
  IF r.Body.kind = "nil" THEN <<>>
  ELSE ChunkFrames(Unread(r.Body), IF r.bodySize >= 0 THEN <<>> ELSE sizes)

\* the body bytes writeToConnection sends after the blank line when the body
\* is read in the given sizes (lines 228-241)
BodyBytes(r, sizes) ==
  IF r.Body.kind = "nil" THEN <<>>
  ELSE IF r.bodySize >= 0 THEN Unread(r.Body)
  ELSE ChunkFrames(Unread(r.Body), sizes)

\* the first write of writeToConnection (line 202)
StatusLine(r) ==
  r.version \o <<" ">> \o FormatInt(r.StatusCode) \o <<" ">> \o r.StatusText \o CRLF

\* What writeToConnection puts on the connection.  failAt names the write
\* call that returns an error: "none", "status", "header" (one of the header
\* lines), "blank" or "body".  The record holds what the writes before the
\* failing one sent and what the failing one was sending: of the header lines
\* of a failing header write and of the body of a failing body write, a part
\* may have reached the peer.
writeToConnection(r, sizes, failAt) ==
  [statusLine |-> StatusLine(r),
   version  |-> r.version,
   code     |-> r.StatusCode,
   text     |-> r.StatusText,
   headers  |-> IF failAt = "status" THEN EmptyMap ELSE FramingHeaders(r),
   body     |-> IF failAt \in {"none", "body"} THEN BodyBytes(r, sizes) ELSE <<>>,
   failAt   |-> failAt]

\* the write calls of writeToConnection for r that can fail
WriteFailures(r, sizes) ==
  {"status", "blank"}
    \cup (IF DOMAIN FramingHeaders(r) # {} THEN {"header"} ELSE {})
    \cup (IF BodyBytes(r, sizes) # <<>> THEN {"body"} ELSE {})

\* the error of writeToConnection ignored
WriteFailed_Ignored(w) == FALSE

\* an error while the body is sent not reported
WriteFailed_HeadersOnly(w) == w.failAt \in {"status", "header", "blank"}

\* writeToConnection returned an error (line 410)
WriteFailed(w) == w.failAt # "none"

\* an error response that leaves the connection open
ErrorResponse_KeepAlive(statusCode, statusText) ==
  [version    |-> HTTP11Version,
   StatusCode |-> statusCode,
   StatusText |-> statusText,
   Headers    |-> MapPut(MapPut(EmptyMap, ContentTypeHeader,
                                <<"t","e","x","t","/","p","l","a","i","n">>),
                         ConnectionHeader, keepalive),
   Body       |-> [kind |-> "seeker", data |-> statusText, pos |-> 0],
   bodySize   |-> Len(statusText)]

\* sendErrorResponse builds this response
ErrorResponse(statusCode, statusText) ==
  [version    |-> HTTP11Version,
   StatusCode |-> statusCode,
   StatusText |-> statusText,
   Headers    |-> MapPut(MapPut(EmptyMap, ContentTypeHeader,
                                <<"t","e","x","t","/","p","l","a","i","n">>),
                         ConnectionHeader, close),
   Body       |-> [kind |-> "seeker", data |-> statusText, pos |-> 0],
   bodySize   |-> Len(statusText)]

-----------------------------------------------------------------------------
(* The peer's messages: the bytes of the header block and of the body.     *)

ReqLine11   == <<"G","E","T"," ","/"," ","H","T","T","P","/","1",".","1","\r","\n">>
ReqLine10   == <<"G","E","T"," ","/"," ","H","T","T","P","/","1",".","0","\r","\n">>
PostLine11  == <<"P","O","S","T"," ","/"," ","H","T","T","P","/","1",".","1","\r","\n">>
ConnClose   == <<"C","o","n","n","e","c","t","i","o","n",":"," ","C","l","o","s","e","\r","\n">>
ConnKeep    == <<"C","o","n","n","e","c","t","i","o","n",":"," ","K","e","e","p","-","A","l","i","v","e","\r","\n">>
Length2     == <<"C","o","n","t","e","n","t","-","L","e","n","g","t","h",":"," ","2","\r","\n">>
LengthX     == <<"C","o","n","t","e","n","t","-","L","e","n","g","t","h",":"," ","x","\r","\n">>
TEChunked   == <<"T","r","a","n","s","f","e","r","-","E","n","c","o","d","i","n","g",":"," ","C","h","u","n","k","e","d","\r","\n">>
LargeHeader == <<"X","-","L","a","r","g","e","-","H","e","a","d","e","r",":"," ","a","a","a","a","a","a","a","a","a","a","a","a","a","a","a","a","a","a","\r","\n">>

SpacedLine  == <<" ","G","E","T"," ","\t","/"," "," ","H","T","T","P","/","1",".","1"," ","\r","\n">>
FourLine    == <<"G","E","T"," ","/"," ","H","T","T","P","/","1",".","1"," ","x","\r","\n">>
EdgeHeader  == <<"X","-","E","d","g","e","-","H","e","a","d","e","r",":"," ","a","a","a","a","a","a","a","a","a","a","a","a","a","a","a","\r","\n">>

LengthNeg   == <<"C","o","n","t","e","n","t","-","L","e","n","g","t","h",":"," ","-","2","\r","\n">>
DupHeaderA  == <<"X","-","A"," ",":"," ","1","\r","\n">>
DupHeaderB  == <<"x","-","a",":","\t","2"," ","\r","\n">>
NoColonLine == <<"n","o","c","o","l","o","n","\r","\n">>
HeaderB     == <<"x","-","b",":"," ","2","\r","\n">>
ReqLine20   == <<"G","E","T"," ","/"," ","H","T","T","P","/","2",".","0","\r","\n">>
TEGzip      == <<"T","r","a","n","s","f","e","r","-","E","n","c","o","d","i","n","g",":"," ","g","z","i","p","\r","\n">>

\* head is the header block; body is the body in pieces, each the peer's
\* content ("data") or the framing around it ("frame")
NoPieces == <<>>
Data(s)  == [bytes |-> s, part |-> "data"]
Frame(s) == [bytes |-> s, part |-> "frame"]

Templates ==
  [get11    |-> [head |-> ReqLine11 \o CRLF, body |-> NoPieces],
   close11  |-> [head |-> ReqLine11 \o ConnClose \o CRLF, body |-> NoPieces],
   get10    |-> [head |-> ReqLine10 \o CRLF, body |-> NoPieces],
   keep10   |-> [head |-> ReqLine10 \o ConnKeep \o CRLF, body |-> NoPieces],
   post     |-> [head |-> PostLine11 \o Length2 \o CRLF, body |-> <<Data(<<"h","i">>)>>],
   chunked  |-> [head |-> PostLine11 \o TEChunked \o CRLF,
                 body |-> <<Frame(<<"2","\r","\n">>), Data(<<"h","i">>),
                            Frame(<<"\r","\n","0","\r","\n","\r","\n">>)>>],
   badline  |-> [head |-> <<"G","E","T"," ","/","\r","\n">> \o CRLF, body |-> NoPieces],
   badlen   |-> [head |-> PostLine11 \o LengthX \o CRLF, body |-> NoPieces],
   large    |-> [head |-> ReqLine11 \o LargeHeader \o CRLF, body |-> NoPieces],
   partial  |-> [head |-> ReqLine11, body |-> NoPieces],
   spaced   |-> [head |-> SpacedLine \o CRLF, body |-> NoPieces],
   four     |-> [head |-> FourLine \o CRLF, body |-> NoPieces],
   blank    |-> [head |-> CRLF, body |-> NoPieces],
   edge     |-> [head |-> ReqLine11 \o EdgeHeader \o CRLF, body |-> NoPieces],
   dup      |-> [head |-> ReqLine11 \o DupHeaderA \o DupHeaderB \o CRLF,
                 body |-> NoPieces],
   both     |-> [head |-> PostLine11 \o Length2 \o TEChunked \o CRLF,
                 body |-> <<Data(<<"h","i">>)>>],
   badlenTE |-> [head |-> PostLine11 \o LengthX \o TEChunked \o CRLF, body |-> NoPieces],
   gzip     |-> [head |-> ReqLine11 \o TEGzip \o CRLF, body |-> NoPieces],
   badchunk |-> [head |-> PostLine11 \o TEChunked \o CRLF,
                 body |-> <<Frame(<<"z","z","\r","\n">>), Data(<<"h","i">>),
                            Frame(<<"\r","\n","0","\r","\n","\r","\n">>)>>],
   neglen   |-> [head |-> PostLine11 \o LengthNeg \o CRLF, body |-> NoPieces],
   nocolon  |-> [head |-> ReqLine11 \o DupHeaderA \o NoColonLine \o HeaderB \o CRLF,
                 body |-> NoPieces],
   v2       |-> [head |-> ReqLine20 \o CRLF, body |-> NoPieces]]

\* the messages of the peer in Spec
LifecycleMenu == {"get11", "close11", "get10", "keep10", "post"}

\* the number of content bytes in the pieces of a body
RECURSIVE PayloadLen(_)
PayloadLen(pieces) ==
  IF pieces = <<>> THEN 0
  ELSE (IF pieces[1].part = "data" THEN Len(pieces[1].bytes) ELSE 0)
         + PayloadLen(Tail(pieces))

\* the bytes s as the peer sends them in message m, whose body has n content
\* bytes, after the first off bytes of the message
Tagged(s, m, part, n, off) ==
  [i \in 1..Len(s) |-> [b |-> s[i], m |-> m, part |-> part, n |-> n, k |-> off + i]]

\* the pieces of a body as the peer sends them in message m
RECURSIVE TaggedBody(_, _, _, _)
TaggedBody(pieces, m, n, off) ==
  IF pieces = <<>> THEN <<>>
  ELSE Tagged(pieces[1].bytes, m, pieces[1].part, n, off)
         \o TaggedBody(Tail(pieces), m, n, off + Len(pieces[1].bytes))

-----------------------------------------------------------------------------
(* What a handler may return (besides nil).                                *)

OK200(headers, body, size) ==
  [version |-> <<>>, StatusCode |-> 200, StatusText |-> <<"O","K">>,
   Headers |-> headers, Body |-> body, bodySize |-> size]

Responses ==
  { OK200(EmptyMap, NoBody, 0),
    OK200(EmptyMap, NoBody, 0 - 1),
    OK200(EmptyMap, [kind |-> "seeker", data |-> <<"o","k">>, pos |-> 0], 0),
    OK200(EmptyMap, [kind |-> "seeker", data |-> <<"o","k">>, pos |-> 0], 0 - 1),
    OK200(EmptyMap, [kind |-> "stream", data |-> <<"o","k">>, pos |-> 0], 0 - 1),
    OK200(EmptyMap, [kind |-> "pipe", data |-> <<"o","k">>, pos |-> 0], 0),
    OK200(MapPut(EmptyMap, TransferEncodingHeader, chunked),
          [kind |-> "seeker", data |-> <<"o","k">>, pos |-> 0], 0) }

LifecycleReplies ==
  { OK200(EmptyMap, [kind |-> "seeker", data |-> <<"o","k">>, pos |-> 0], 0) }

\* responses in which the handler itself sets the connection header to close,
\* under the engine's lower-case key or under the canonical one
ClosingReplies ==
  { OK200(MapPut(EmptyMap, ConnectionHeader, close),
          [kind |-> "seeker", data |-> <<"o","k">>, pos |-> 0], 0),
    OK200(MapPut(EmptyMap, <<"C","o","n","n","e","c","t","i","o","n">>, close),
          [kind |-> "seeker", data |-> <<"o","k">>, pos |-> 0], 0) }

\* responses whose body the handler has read one byte of before it returns
\* them, and responses without a body
PositionedReplies ==
  { OK200(EmptyMap, [kind |-> "seeker", data |-> <<"x","o","k">>, pos |-> 1], 0),
    OK200(EmptyMap, [kind |-> "stream", data |-> <<"x","o","k">>, pos |-> 1], 0),
    OK200(EmptyMap, [kind |-> "pipe", data |-> <<"x","o","k">>, pos |-> 1], 0),
    OK200(EmptyMap, NoBody, 0) }

\* every response a handler of the connection loop returns
AllReplies == Responses \cup ClosingReplies \cup PositionedReplies

\* the sizes of the buffers a handler passes to Body.Read
HandlerBufSizes == {1, 512}

-----------------------------------------------------------------------------
(* The state.                                                              *)

VARIABLES
  srv,          \* the server configuration (HTTPServer)
  menu,         \* the messages the peer chooses from
  replies,      \* the responses the handler chooses from
  peer,         \* the peer: messages sent, body not yet sent, closed
  conn,         \* bytes the peer has sent and the server has not read
  now,          \* the clock
  pc,           \* the worker: "accepted", "parse", "handler", "responded", "closed"
  requestCount, \* handleConnection's requestCount
  startTime,    \* handleConnection's startTime
  readDeadline, \* the deadline of conn.SetReadDeadline
  writeDeadline, \* the deadline of conn.SetWriteDeadline, NoDeadline if never set
  reader,       \* the unread bytes in the buffer of parseRequest's bufio.Reader
  headerBuf,    \* parseRequest's headerBuf
  request,      \* the request of this pass of the loop
  bodyLeft,     \* the bytes the request body's LimitReader may still return
  bodyRead,     \* the bytes the handler has read from request.Body
  bodyEnd,      \* "eof" / "err" once a read of request.Body returned it
  out,          \* what the worker has written in this pass of the loop
  closeReason,  \* why the loop ended
  hist,         \* history: parseRequest calls, handler calls, responses written
  chunkWriter,  \* a call of writeChunkedBody: the body stream, the bytes written
  pool          \* Start: the accept loop, its workers and what their handler shares

connVars == <<srv, menu, replies, peer, conn, now, pc, requestCount, startTime, readDeadline,
              writeDeadline,
              reader, headerBuf, request, bodyLeft, bodyRead, bodyEnd, out,
              closeReason, hist>>

vars == <<connVars, chunkWriter, pool>>

\* a connection on which SetWriteDeadline was never called has no write
\* deadline: a write on it blocks for as long as the peer does not read
NoDeadline == 0 - 1

\* nothing written in this pass of the loop
\* resp is what was written, origin who made the response ("handler" or
\* "engine"), returned the response as the handler returned it, and keepAlive
\* handleConnection's shouldKeepAlive
NoReturn == OK200(EmptyMap, NoBody, 0)

NoResponse ==
  [resp |-> [statusLine |-> <<>>, version |-> <<>>, code |-> 0, text |-> <<>>, headers |-> EmptyMap,
             body |-> <<>>, failAt |-> "none"],
   origin |-> "none", returned |-> NoReturn, keepAlive |-> FALSE]

OutRecord(w, origin, returned, keep) ==
  [resp |-> w, origin |-> origin, returned |-> returned, keepAlive |-> keep]

\* The configurations handed to NewHTTPServer: keep-alive with small limits,
\* keep-alive disabled with every other field left zero, and no handler set.
Limited ==
  [MaxRequestSize |-> SmallRequestSize,
   MaxHeaderSize |-> SmallHeaderSize, ReadTimeout |-> 2, WriteTimeout |-> 2,
   KeepAliveTimeout |-> 1,
   MaxKeepAliveRequests |-> MaxKeepAlive, EnableKeepAlive |-> TRUE, HasHandler |-> TRUE]

Configs ==
  { Limited,
    [MaxRequestSize |-> 0,
     MaxHeaderSize |-> 0, ReadTimeout |-> 0, WriteTimeout |-> 0, KeepAliveTimeout |-> 0,
     MaxKeepAliveRequests |-> 0, EnableKeepAlive |-> FALSE, HasHandler |-> TRUE],
    [Limited EXCEPT !.HasHandler = FALSE] }

InitConnection(cfgs, m, r) ==
  /\ srv \in {NewHTTPServer(cfg) : cfg \in cfgs}
  /\ menu = m
  /\ replies = r
  /\ peer = [sent |-> 0, pending |-> <<>>, closed |-> FALSE, cut |-> FALSE]
  /\ conn = <<>>
  /\ now = 0
  /\ pc = "accepted"
  /\ requestCount = 0
  /\ startTime = 0
  /\ readDeadline = 0
  /\ writeDeadline = NoDeadline
  /\ reader = <<>>
  /\ headerBuf = <<>>
  /\ request = NilRequest
  /\ bodyLeft = 0
  /\ bodyRead = <<>>
  /\ bodyEnd = ""
  /\ out = NoResponse
  /\ closeReason = ""
  /\ hist = [parses |-> 0, handled |-> 0, written |-> 0, responded |-> 0,
             err |-> "", nil |-> FALSE]

\* no call of writeChunkedBody is followed
NoChunkWriter ==
  [pc |-> "idle", data |-> <<>>, pos |-> 0, conn |-> <<>>, reads |-> <<>>, err |-> ""]

\* what the peer of a pooled connection does in one exchange: the request it
\* sends, and whether the handler returns nil for it ("nil") or the write of
\* the response fails ("write")
Ev(t, fault) == [t |-> t, fault |-> fault]

\* the peers of the pooled connections: a peer sends its requests one after
\* the other, each when the one before was answered, and then closes
Scripts ==
  { <<Ev("get11", "none")>>,
    <<Ev("get11", "none"), Ev("close11", "none")>>,
    <<Ev("badline", "none")>>,
    <<Ev("get11", "write")>>,
    <<Ev("get11", "nil")>> }

\* a connection of the pool before it is accepted
NoWorker(script) ==
  [pc |-> "none", script |-> script, pos |-> 1, requestCount |-> 0, reg |-> 0,
   body |-> 0, trace |-> <<>>, reason |-> ""]

\* no listener is followed
NoPool ==
  [listening |-> FALSE, accepted |-> 0, acceptErrors |-> 0, handler |-> "pure",
   counter |-> 0, workers |-> [c \in 1..MaxConns |-> NoWorker(<<>>)]]

InitWith(m, r) ==
  /\ InitConnection(Configs, m, r)
  /\ chunkWriter = NoChunkWriter
  /\ pool = NoPool

Init == InitWith(LifecycleMenu, LifecycleReplies)

\* requests with bodies
InitBody == InitWith({"get11", "post", "chunked"}, LifecycleReplies)

\* requests that do not parse
InitErrors == InitWith({"post", "badline", "badlen", "large", "partial"}, LifecycleReplies)

\* every response of the handler
InitEncode == InitWith({"post"}, Responses)

\* header lines
InitHeaders == InitWith({"post", "dup", "badlen", "badlenTE"}, LifecycleReplies)

\* the framing of the body
InitFraming == InitWith({"post", "both", "gzip"}, LifecycleReplies)

\* the bytes of the bodies of the round trips
BodyAlphabet == {"a", "\r", "\n"}

Bodies == UNION {[1..n -> BodyAlphabet] : n \in 0..MaxBody}

\* Round trips: one response with body B, of unknown length (a reader that
\* cannot seek) or of known length, is written once and read back.
InitRoundTrip ==
  \E B \in Bodies, kind \in {"pipe", "seeker"} :
    InitWith({}, {OK200(EmptyMap, [kind |-> kind, data |-> B, pos |-> 0], 0 - 1)})

\* bodies the decoder has to bound or to reject
InitDecode == InitWith({"chunked", "badchunk", "neglen"}, LifecycleReplies)

\* One call of writeChunkedBody on a response whose body stream holds the
\* bytes data; the connection it writes to is not the worker's of this model.
InitChunkedWriter ==
  /\ InitConnection({Limited}, {}, LifecycleReplies)
  /\ \E B \in Bodies :
       chunkWriter = [pc |-> "loop", data |-> B, pos |-> 0, conn |-> <<>>,
                      reads |-> <<>>, err |-> ""]
  /\ pool = NoPool

\* Start has opened its listener.  The handler is a pure function of the
\* request, or the handler of TestConcurrentRequests, which increments a
\* counter it shares with every other call.
InitConcurrent ==
  /\ InitConnection({Limited}, {}, LifecycleReplies)
  /\ chunkWriter = NoChunkWriter
  /\ \E h \in {"pure", "counter"}, scripts \in [1..MaxConns -> Scripts] :
       pool = [listening |-> TRUE, accepted |-> 0, acceptErrors |-> 0, handler |-> h,
               counter |-> 0, workers |-> [c \in 1..MaxConns |-> NoWorker(scripts[c])]]

\* request lines and header blocks at the size limit
\* header lines without a colon, and the versions of the request line
InitVersions == InitWith({"post", "nocolon", "v2"}, LifecycleReplies)

\* handlers that ask for the connection to be closed
InitClosing == InitWith({"get11", "keep10", "post"}, ClosingReplies)

\* the length of the body of a response
InitLength == InitWith({"get11", "post"}, PositionedReplies)

InitLines == InitWith({"post", "spaced", "badline", "four", "blank", "edge"},
                      LifecycleReplies)

-----------------------------------------------------------------------------
(* The peer.                                                               *)

\* the peer sends the header block of its next message
PeerSend(t) ==
  /\ pc # "closed"
  /\ ~peer.closed
  /\ peer.pending = <<>>
  /\ peer.sent < MaxMsgs
  /\ t \in menu
  /\ conn' = conn \o Tagged(Templates[t].head, peer.sent + 1, "head",
                             PayloadLen(Templates[t].body), 0)
  /\ peer' = [peer EXCEPT !.sent = @ + 1,
                          !.pending = TaggedBody(Templates[t].body, peer.sent + 1,
                                                 PayloadLen(Templates[t].body),
                                                 Len(Templates[t].head))]
  /\ UNCHANGED <<chunkWriter, pool, srv, menu, replies, now, pc, requestCount, startTime, readDeadline, writeDeadline, reader,
                 headerBuf, request, bodyLeft, bodyRead, bodyEnd, out, closeReason, hist>>

\* the peer sends the body of the message
PeerSendBody ==
  /\ pc # "closed"
  /\ ~peer.closed
  /\ peer.pending # <<>>
  /\ conn' = conn \o peer.pending
  /\ peer' = [peer EXCEPT !.pending = <<>>]
  /\ UNCHANGED <<chunkWriter, pool, srv, menu, replies, now, pc, requestCount, startTime, readDeadline, writeDeadline, reader,
                 headerBuf, request, bodyLeft, bodyRead, bodyEnd, out, closeReason, hist>>

\* the peer closes its side of the connection; cut records that it did so
\* before it had sent the body of its last message
PeerClose ==
  /\ pc # "closed"
  /\ ~peer.closed
  /\ peer' = [peer EXCEPT !.closed = TRUE, !.pending = <<>>,
                          !.cut = (peer.pending # <<>>)]
  /\ UNCHANGED <<chunkWriter, pool, srv, menu, replies, conn, now, pc, requestCount, startTime, readDeadline, writeDeadline, reader,
                 headerBuf, request, bodyLeft, bodyRead, bodyEnd, out, closeReason, hist>>

-----------------------------------------------------------------------------
(* The worker: handleConnection.                                           *)

\* The loop ends: the deferred conn.Close().  What the peer had sent and the
\* worker had not read is discarded with the connection, and the peer can
\* send no more on it.
Stop(reason) ==
  /\ pc' = "closed"
  /\ closeReason' = reason
  /\ conn' = <<>>
  /\ reader' = <<>>
  /\ peer' = [peer EXCEPT !.pending = <<>>, !.closed = TRUE, !.cut = FALSE]

\* the keep-alive limits at the top of the loop (lines 350-360)
\* the limit on requests tested one request too late
MaxRequestsReached_OffByOne(s, count) ==
  s.enableKeepAlive /\ count > s.maxKeepAliveRequests

MaxRequestsReached(s, count) == s.enableKeepAlive /\ count >= s.maxKeepAliveRequests

IdleTimeoutReached(s, elapsed) == s.enableKeepAlive /\ elapsed > s.keepAliveTimeout

\* every parse error taken for the peer closing the connection
ClientClosed_Always(s, count) == s.enableKeepAlive

\* no parse error taken for the peer closing the connection
ClientClosed_Never(s, count) == FALSE

\* a parse error is taken for the peer closing a kept-alive connection (line 366)
ClientClosed(s, count) == s.enableKeepAlive /\ count > 0

\* The top of the loop (lines 349-364) with count requests handled and the
\* session timer started at start: the keep-alive limits, the read deadline
\* and the entry into parseRequest, which makes a new bufio.Reader (line 128).
\* The request, the response and the body reader of the pass before are gone.
LoopEntry(count, start) ==
  IF MaxRequestsReached(srv, count)
    THEN /\ Stop("max-requests")
         /\ UNCHANGED <<readDeadline, headerBuf, request, bodyLeft, bodyRead,
                        bodyEnd, out, hist>>
  ELSE IF IdleTimeoutReached(srv, now - start)
    THEN /\ Stop("idle-timeout")
         /\ UNCHANGED <<readDeadline, headerBuf, request, bodyLeft, bodyRead,
                        bodyEnd, out, hist>>
  ELSE /\ pc' = "parse"
       /\ closeReason' = closeReason
       /\ UNCHANGED <<conn, peer>>
       /\ readDeadline' = now + srv.readTimeout
       /\ reader' = <<>>
       /\ headerBuf' = <<>>
       /\ request' = NilRequest
       /\ bodyLeft' = 0
       /\ bodyRead' = <<>>
       /\ bodyEnd' = ""
       /\ out' = NoResponse
       /\ hist' = [hist EXCEPT !.parses = @ + 1]

\* lines 346-347 and the first entry of the loop
Start ==
  /\ pc = "accepted"
  /\ startTime' = now
  /\ LoopEntry(0, now)
  /\ UNCHANGED <<chunkWriter, pool, srv, menu, replies, now, requestCount, writeDeadline>>

\* the read sizes writeChunkedBody may see for the body of r
Splits(r) ==
  IF r.Body.kind # "nil" /\ r.bodySize < 0
    THEN ReadSplits(Len(Unread(r.Body)), DefaultChunkSize)
    ELSE {<<>>}

\* every outcome of r.writeToConnection(conn)
Writes(r) ==
  UNION {{writeToConnection(r, sizes, failAt) :
            failAt \in {"none"} \cup WriteFailures(r, sizes)} : sizes \in Splits(r)}

\* sendErrorResponse, followed by the break of its caller
SendErrorAndStop(statusCode, statusText, reason) ==
  /\ \E w \in Writes(ErrorResponse(statusCode, statusText)) :
       out' = OutRecord(w, "engine", NoReturn, FALSE)
  /\ Stop(reason)

\* where the next line ends in the reader's buffer, 0 if there is none
LineEnd == IndexByte(Chars(reader), "\n")

\* What parseRequest does next: "fill" (read from the connection), "block"
\* (wait for bytes), "more" (a header line was read), "ok" (the request is
\* complete) or the error it returns.
ParseStep ==
  LET line == Take(reader, LineEnd)
      hb   == headerBuf \o line
  IN  IF LineEnd = 0
        THEN IF now > readDeadline THEN "error reading headers"
             ELSE IF conn # <<>> THEN "fill"
             ELSE IF peer.closed THEN "error reading headers"
             ELSE "block"
      ELSE IF Chars(line) = CRLF
        THEN IF ParseHeaderBlock(Chars(hb)).err = "" THEN "ok"
             ELSE ParseHeaderBlock(Chars(hb)).err
      ELSE IF Len(hb) > srv.maxHeaderSize THEN "headers too large"
      ELSE "more"

\* reader.ReadBytes reads from the connection into its buffer
ParseFill ==
  /\ pc = "parse"
  /\ ParseStep = "fill"
  /\ reader' = reader \o conn
  /\ conn' = <<>>
  /\ UNCHANGED <<chunkWriter, pool, srv, menu, replies, peer, now, pc, requestCount, startTime, readDeadline, writeDeadline,
                 headerBuf, request, bodyLeft, bodyRead, bodyEnd, out, closeReason, hist>>

\* one pass of the header loop (lines 130-145) that goes round again
ParseLine ==
  /\ pc = "parse"
  /\ ParseStep = "more"
  /\ headerBuf' = headerBuf \o Take(reader, LineEnd)
  /\ reader' = Drop(reader, LineEnd)
  /\ UNCHANGED <<chunkWriter, pool, srv, menu, replies, peer, conn, now, pc, requestCount, startTime, readDeadline, writeDeadline,
                 request, bodyLeft, bodyRead, bodyEnd, out, closeReason, hist>>

\* parseRequest returns an error (lines 365-373)
ParseFail ==
  /\ pc = "parse"
  /\ ParseStep \notin {"fill", "block", "more", "ok"}
  /\ headerBuf' = headerBuf \o Take(reader, LineEnd)
  /\ IF ClientClosed(srv, requestCount)
       THEN /\ Stop("client-closed")
            /\ hist' = [hist EXCEPT !.err = ParseStep]
            /\ UNCHANGED out
       ELSE /\ SendErrorAndStop(StatusBadRequest,
                 <<"B","a","d"," ","R","e","q","u","e","s","t">>, "bad-request")
            /\ hist' = [hist EXCEPT !.err = ParseStep, !.written = @ + 1]
  /\ UNCHANGED <<chunkWriter, pool, srv, menu, replies, now, requestCount, startTime, readDeadline, writeDeadline,
                 request, bodyLeft, bodyRead, bodyEnd>>

\* a loop that does not count the request it has parsed
ParseOK_NoCount ==
  /\ pc = "parse"
  /\ ParseStep = "ok"
  /\ LET hb  == headerBuf \o Take(reader, LineEnd)
         req == ParseHeaderBlock(Chars(hb)).req
     IN  /\ headerBuf' = hb
         /\ request' = req
         /\ bodyLeft' = IF req.Body = "limit" THEN req.BodySize ELSE 0
  /\ requestCount' = requestCount
  /\ IF ~srv.hasHandler
       THEN /\ SendErrorAndStop(StatusInternalServerError,
                 <<"N","o"," ","h","a","n","d","l","e","r"," ","d","e","f","i","n","e","d">>,
                 "no-handler")
            /\ hist' = [hist EXCEPT !.written = @ + 1]
       ELSE /\ pc' = "handler"
            /\ reader' = Drop(reader, LineEnd)
            /\ hist' = [hist EXCEPT !.handled = @ + 1]
            /\ UNCHANGED <<out, closeReason, conn, peer>>
  /\ UNCHANGED <<chunkWriter, pool, srv, menu, replies, now, startTime, readDeadline, writeDeadline, bodyRead, bodyEnd>>

\* parseRequest returns a request (lines 375-382)
ParseOK ==
  /\ pc = "parse"
  /\ ParseStep = "ok"
  /\ LET hb  == headerBuf \o Take(reader, LineEnd)
         req == ParseHeaderBlock(Chars(hb)).req
     IN  /\ headerBuf' = hb
         /\ request' = req
         /\ bodyLeft' = IF req.Body = "limit" THEN req.BodySize ELSE 0
  /\ requestCount' = requestCount + 1
  /\ IF ~srv.hasHandler
       THEN /\ SendErrorAndStop(StatusInternalServerError,
                 <<"N","o"," ","h","a","n","d","l","e","r"," ","d","e","f","i","n","e","d">>,
                 "no-handler")
            /\ hist' = [hist EXCEPT !.written = @ + 1]
       ELSE /\ pc' = "handler"
            /\ reader' = Drop(reader, LineEnd)
            /\ hist' = [hist EXCEPT !.handled = @ + 1]
            /\ UNCHANGED <<out, closeReason, conn, peer>>
  /\ UNCHANGED <<chunkWriter, pool, srv, menu, replies, now, startTime, readDeadline, writeDeadline, bodyRead, bodyEnd>>

-----------------------------------------------------------------------------
(* The handler: it may read request.Body, and it returns a response or nil. *)

\* a body stream without a limit: the parser's reader itself
ReadSize_Unlimited(req, left, p) == p

\* the most bytes one Read of the body stream asks of the parser's reader:
\* io.LimitReader cuts the buffer to what is left of the declared size
ReadSize(req, left, p) == IF req.Body = "limit" THEN Min(p, left) ELSE p

\* only a limited stream ever at its end without reading
BodyExhausted_LimitOnly(req, left) == req.Body = "limit" /\ left <= 0

\* the body stream returns io.EOF without reading: emptyReader.Read, and
\* io.LimitReader when nothing is left of the declared size
BodyExhausted(req, left) ==
  req.Body = "empty" \/ (req.Body = "limit" /\ left <= 0)

\* One call of request.Body.Read with a buffer of p bytes: emptyReader.Read,
\* io.LimitReader over the parser's bufio.Reader, or chunkedReader.Read,
\* which passes the call to the bufio.Reader.
HandlerRead(p) ==
  /\ pc = "handler"
  /\ bodyEnd = ""
  /\ p \in HandlerBufSizes
  /\ LET q == ReadSize(request, bodyLeft, p)
     IN  IF BodyExhausted(request, bodyLeft)
           THEN /\ bodyEnd' = "eof"
                /\ UNCHANGED <<reader, conn, bodyRead, bodyLeft>>
         ELSE IF reader # <<>>
           THEN /\ bodyRead' = bodyRead \o Take(reader, q)
                /\ reader' = Drop(reader, q)
                /\ bodyLeft' = IF request.Body = "limit"
                                 THEN bodyLeft - Len(Take(reader, q)) ELSE bodyLeft
                /\ UNCHANGED <<conn, bodyEnd>>
         ELSE IF now > readDeadline
           THEN /\ bodyEnd' = "err"
                /\ UNCHANGED <<reader, conn, bodyRead, bodyLeft>>
         ELSE IF conn # <<>>
           THEN /\ bodyRead' = bodyRead \o Take(conn, q)
                /\ reader' = Drop(conn, q)
                /\ conn' = <<>>
                /\ bodyLeft' = IF request.Body = "limit"
                                 THEN bodyLeft - Len(Take(conn, q)) ELSE bodyLeft
                /\ UNCHANGED bodyEnd
         ELSE /\ peer.closed
              /\ bodyEnd' = "eof"
              /\ UNCHANGED <<reader, conn, bodyRead, bodyLeft>>
  /\ UNCHANGED <<chunkWriter, pool, srv, menu, replies, peer, now, pc, requestCount, startTime, readDeadline, writeDeadline,
                 headerBuf, request, out, closeReason, hist>>

\* the handler returns nil and the connection is closed with nothing written
HandlerReturnsNil_Silent ==
  /\ pc = "handler"
  /\ Stop("nil-response")
  /\ hist' = [hist EXCEPT !.nil = TRUE]
  /\ UNCHANGED <<chunkWriter, pool, srv, menu, replies, now, requestCount, startTime, readDeadline, writeDeadline,
                 headerBuf, request, bodyLeft, bodyRead, bodyEnd, out>>

\* the handler returns nil (lines 383-386)
HandlerReturnsNil ==
  /\ pc = "handler"
  /\ SendErrorAndStop(StatusInternalServerError,
       <<"H","a","n","d","l","e","r"," ","r","e","t","u","r","n","e","d"," ","n","i","l">>,
       "nil-response")
  /\ hist' = [hist EXCEPT !.written = @ + 1, !.nil = TRUE]
  /\ UNCHANGED <<chunkWriter, pool, srv, menu, replies, now, requestCount, startTime, readDeadline, writeDeadline,
                 headerBuf, request, bodyLeft, bodyRead, bodyEnd>>

\* the response written with the version the handler left in it
Prepared_KeepsVersion(s, req, response, count) ==
  Annotate(s, getContentLength(response), shouldKeepConnectionAlive(s, req), count)

\* the response handleConnection writes for the handler's response (lines 388-405)
Prepared(s, req, response, count) ==
  Annotate(s, getContentLength([response EXCEPT !.version = req.Version]),
           shouldKeepConnectionAlive(s, req), count)

\* the handler returns a response, which is written (lines 383-413)
HandlerReturns(response) ==
  /\ pc = "handler"
  /\ response \in replies
  /\ writeDeadline' = now + srv.writeTimeout
  /\ \E w \in Writes(Prepared(srv, request, response, requestCount)) :
       /\ out' = OutRecord(w, "handler", response,
                            shouldKeepConnectionAlive(srv, request))
       /\ hist' = [hist EXCEPT !.written = @ + 1,
                               !.responded = IF w.failAt = "none" THEN @ + 1 ELSE @]
       /\ IF WriteFailed(w)
            THEN Stop("write-error")
            ELSE /\ pc' = "responded"
                 /\ closeReason' = closeReason
                 /\ UNCHANGED <<conn, peer, reader>>
  /\ UNCHANGED <<chunkWriter, pool, srv, menu, replies, now, requestCount, startTime, readDeadline,
                 headerBuf, request, bodyLeft, bodyRead, bodyEnd>>

\* a loop that counts the requests left down in the server's own field
Continue_CountsInServer ==
  /\ pc = "responded"
  /\ IF ~out.keepAlive
       THEN /\ Stop("no-keep-alive")
            /\ UNCHANGED <<startTime, readDeadline, headerBuf, request,
                           bodyLeft, bodyRead, bodyEnd, out, hist>>
       ELSE /\ startTime' = now
            /\ LoopEntry(requestCount, now)
  /\ srv' = [srv EXCEPT !.maxKeepAliveRequests = @ - 1]
  /\ UNCHANGED <<chunkWriter, pool, menu, replies, now, requestCount, writeDeadline>>

\* after the response is written (lines 415-419) and the top of the next pass
Continue ==
  /\ pc = "responded"
  /\ IF ~out.keepAlive
       THEN /\ Stop("no-keep-alive")
            /\ UNCHANGED <<startTime, readDeadline, headerBuf, request,
                           bodyLeft, bodyRead, bodyEnd, out, hist>>
       ELSE /\ startTime' = now
            /\ LoopEntry(requestCount, now)
  /\ UNCHANGED <<chunkWriter, pool, srv, menu, replies, now, requestCount, writeDeadline>>

-----------------------------------------------------------------------------
(* The writer of a round trip.                                             *)

\* the header block of a request whose body is framed as the written
\* response w is
FramedHead(w) ==
  PostLine11
    \o (IF Has(w.headers, ContentLengthHeader)
          THEN ContentLengthHeader \o <<":", " ">> \o w.headers[ContentLengthHeader] \o CRLF
        ELSE IF Has(w.headers, TransferEncodingHeader)
          THEN TransferEncodingHeader \o <<":", " ">>
                 \o w.headers[TransferEncodingHeader] \o CRLF
        ELSE <<>>)
    \o CRLF

\* The writer of a round trip: the response is written as writeToConnection
\* writes it (getContentLength first, as in handleConnection) and the body
\* bytes it produced are sent as the body of a request that carries the same
\* framing header; then the writer is done.
RoundTripWrite ==
  /\ pc # "closed"
  /\ ~peer.closed
  /\ peer.sent = 0
  /\ \E r \in replies :
       \E w \in Writes(getContentLength(r)) :
         /\ w.failAt = "none"
         /\ conn' = conn \o Tagged(FramedHead(w), 1, "head", Len(Unread(r.Body)), 0)
                         \o Tagged(w.body, 1, "data", Len(Unread(r.Body)),
                                   Len(FramedHead(w)))
  /\ peer' = [peer EXCEPT !.sent = 1, !.closed = TRUE]
  /\ UNCHANGED <<chunkWriter, pool, srv, menu, replies, now, pc, requestCount, startTime, readDeadline, writeDeadline, reader,
                 headerBuf, request, bodyLeft, bodyRead, bodyEnd, out, closeReason, hist>>

-----------------------------------------------------------------------------
(* writeChunkedBody, one pass of its loop at a time.                       *)

\* What r.Body.Read(buffer) may return when rest bytes are left in the
\* stream: n bytes, no more than the buffer holds, and no error, io.EOF (with
\* the last bytes or with none) or another error.
ReadResults(rest) ==
  {res \in [n : 0..Min(rest, DefaultChunkSize), err : {"nil", "eof", "fail"}] :
     res.err = "eof" => res.n = rest}

\* a chunk written for every read
ChunkOf_EmptyToo(buffer) ==
  FormatHex(Len(buffer)) \o CRLF \o buffer \o CRLF

\* the three writes of lines 251-264 for the bytes of one read
ChunkOf(buffer) ==
  IF Len(buffer) > 0 THEN FormatHex(Len(buffer)) \o CRLF \o buffer \o CRLF ELSE <<>>

\* what of a chunk is written when the write named by failAt fails
ChunkWritten(buffer, failAt) ==
  CASE failAt = "none" -> ChunkOf(buffer)
    [] failAt = "size" -> <<>>
    [] failAt = "data" -> FormatHex(Len(buffer)) \o CRLF
    [] failAt = "crlf" -> FormatHex(Len(buffer)) \o CRLF \o buffer

\* one pass of the loop (lines 249-272): a read, the chunk for it, and the
\* test of the read's error
ChunkRead(res, failAt) ==
  /\ chunkWriter.pc = "loop"
  /\ Len(chunkWriter.reads) < MaxReads
  /\ res \in ReadResults(Len(chunkWriter.data) - chunkWriter.pos)
  /\ failAt \in (IF res.n > 0 THEN {"none", "size", "data", "crlf"} ELSE {"none"})
  /\ LET buffer == SubSeq(chunkWriter.data, chunkWriter.pos + 1,
                          chunkWriter.pos + res.n)
     IN  chunkWriter' =
           [chunkWriter EXCEPT
              !.pos   = @ + res.n,
              !.reads = Append(@, res),
              !.conn  = @ \o ChunkWritten(buffer, failAt),
              !.pc    = IF failAt # "none" THEN "failed"
                        ELSE IF res.err = "eof" THEN "final"
                        ELSE IF res.err = "fail" THEN "failed"
                        ELSE "loop",
              !.err   = IF failAt # "none" THEN "write"
                        ELSE IF res.err = "fail" THEN "read"
                        ELSE ""]
  /\ UNCHANGED <<connVars, pool>>

\* the final chunk (lines 274-279), whose write may fail
ChunkFinal(ok) ==
  /\ chunkWriter.pc = "final"
  /\ chunkWriter' =
       [chunkWriter EXCEPT
          !.conn = IF ok THEN @ \o <<"0","\r","\n","\r","\n">> ELSE @,
          !.pc   = IF ok THEN "done" ELSE "failed",
          !.err  = IF ok THEN "" ELSE "write"]
  /\ UNCHANGED <<connVars, pool>>

-----------------------------------------------------------------------------
(* Start: the accept loop and one goroutine per connection.  A pooled      *)
(* worker is handleConnection followed exchange by exchange: the top of    *)
(* the loop with parseRequest, the call of the handler, its return, and    *)
(* the write of the response.                                              *)

\* one count of requests for the whole server
CountOf_Shared(p, c) ==
  LET RECURSIVE Sum(_)
      Sum(n) == IF n = 0 THEN 0 ELSE p.workers[n].requestCount + Sum(n - 1)
  IN  Sum(MaxConns)

\* requestCount, a local variable of each call of handleConnection (line 346)
CountOf(p, c) == p.workers[c].requestCount

\* what the peer does in the exchange the worker is in; "eof" when the peer
\* has sent all its requests and closed
Event(w) == IF w.pos <= Len(w.script) THEN w.script[w.pos] ELSE Ev("eof", "none")

\* parseRequest on what the peer sent; a peer that has closed, like one that
\* stays silent until the read deadline, makes the read of the header fail.
\* (The pool has no clock: the idle-timeout test of line 356 is made with no
\* time elapsed.)
Parsed(ev) ==
  IF ev.t = "eof" THEN [err |-> "error reading headers", req |-> NilRequest]
  ELSE ParseHeaderBlock(Templates[ev.t].head)

\* a response on the connection: its status code, its body, the keep-alive
\* decision sent with it, and whether a write of it failed
Entry(code, body, keep, failed) ==
  [code |-> code, body |-> body, keep |-> keep, failed |-> failed]

\* the worker ends: the deferred conn.Close(), with nothing written ...
Closed(w, reason) == [w EXCEPT !.pc = "closed", !.reason = reason]

\* ... or after a last response
ClosedWith(w, entry, reason) ==
  [w EXCEPT !.pc = "closed", !.reason = reason, !.trace = Append(@, entry)]

\* the next step of worker c in pool p of server s
WorkerStep(s, p, c) ==
  LET w  == p.workers[c]
      ev == Event(w)
  IN  CASE w.pc = "parse" ->
             IF MaxRequestsReached(s, CountOf(p, c))
               THEN [p EXCEPT !.workers[c] = Closed(w, "max-requests")]
             ELSE IF Parsed(ev).err # ""
               THEN IF ClientClosed(s, CountOf(p, c))
                      THEN [p EXCEPT !.workers[c] = Closed(w, "client-closed")]
                      ELSE [p EXCEPT !.workers[c] =
                              ClosedWith(w, Entry(StatusBadRequest, 0, FALSE, FALSE),
                                         "bad-request")]
             ELSE IF ~s.hasHandler
               THEN [p EXCEPT !.workers[c] =
                       ClosedWith([w EXCEPT !.requestCount = @ + 1],
                                  Entry(StatusInternalServerError, 0, FALSE, FALSE),
                                  "no-handler")]
             ELSE [p EXCEPT !.workers[c] = [w EXCEPT !.requestCount = @ + 1,
                                                     !.pc = "call"]]
        [] w.pc = "call" ->
             \* the handler runs: counter++ reads the counter ...
             [p EXCEPT !.workers[c] =
                [w EXCEPT !.pc = "return",
                          !.reg = IF p.handler = "counter" THEN p.counter ELSE 0]]
        [] w.pc = "return" ->
             \* ... and writes it back, and the handler returns
             LET q == IF p.handler = "counter" THEN [p EXCEPT !.counter = w.reg + 1]
                      ELSE p
             IN  IF ev.fault = "nil"
                   THEN [q EXCEPT !.workers[c] =
                           ClosedWith(w, Entry(StatusInternalServerError, 0, FALSE, FALSE),
                                      "nil-response")]
                   ELSE [q EXCEPT !.workers[c] =
                           [w EXCEPT !.pc = "write",
                                     !.body = IF p.handler = "counter"
                                                THEN w.reg + 1 ELSE 0]]
        [] w.pc = "write" ->
             LET keep == shouldKeepConnectionAlive(s, Parsed(ev).req)
             IN  IF ev.fault = "write"
                   THEN [p EXCEPT !.workers[c] =
                           ClosedWith(w, Entry(200, w.body, keep, TRUE), "write-error")]
                   ELSE LET entry == Entry(200, w.body, keep, FALSE)
                        IN  IF keep
                          THEN [p EXCEPT !.workers[c] =
                                  [w EXCEPT !.pc = "parse", !.pos = @ + 1,
                                            !.trace = Append(@, entry)]]
                          ELSE [p EXCEPT !.workers[c] =
                                  ClosedWith(w, entry, "no-keep-alive")]

\* listener.Accept() returns a connection and its goroutine is started, or
\* returns an error and the loop continues (lines 460-468)
Accept(ok) ==
  /\ pool.listening
  /\ IF ok
       THEN /\ pool.accepted < MaxConns
            /\ pool' = [pool EXCEPT !.accepted = @ + 1,
                                    !.workers[pool.accepted + 1].pc = "parse"]
       ELSE /\ pool.acceptErrors < 1
            /\ pool' = [pool EXCEPT !.acceptErrors = @ + 1]
  /\ UNCHANGED <<connVars, chunkWriter>>

\* a step of the goroutine of connection c
Worker(c) ==
  /\ c \in 1..MaxConns
  /\ pool.workers[c].pc \in {"parse", "call", "return", "write"}
  /\ pool' = WorkerStep(srv, pool, c)
  /\ UNCHANGED <<connVars, chunkWriter>>

-----------------------------------------------------------------------------
(* Time passes while the worker waits for bytes from the peer.             *)

Waiting ==
  /\ conn = <<>>
  /\ ~peer.closed
  /\ now <= readDeadline
  /\ \/ pc = "parse" /\ LineEnd = 0
     \/ /\ pc = "handler"
        /\ bodyEnd = ""
        /\ reader = <<>>
        /\ request.Body = "chunked" \/ (request.Body = "limit" /\ bodyLeft > 0)

Tick ==
  /\ Waiting
  /\ now < MaxTime
  /\ now' = now + 1
  /\ UNCHANGED <<chunkWriter, pool, srv, menu, replies, peer, conn, pc, requestCount, startTime, readDeadline, writeDeadline,
                 reader, headerBuf, request, bodyLeft, bodyRead, bodyEnd, out,
                 closeReason, hist>>

-----------------------------------------------------------------------------

Next ==
  \/ \E t \in DOMAIN Templates : PeerSend(t)
  \/ PeerSendBody
  \/ PeerClose
  \/ Start
  \/ ParseFill
  \/ ParseLine
  \/ ParseFail
  \/ ParseOK
  \/ \E p \in HandlerBufSizes : HandlerRead(p)
  \/ HandlerReturnsNil
  \/ \E response \in AllReplies : HandlerReturns(response)
  \/ Continue
  \/ Tick

Spec == Init /\ [][Next]_vars

SpecBody == InitBody /\ [][Next]_vars

SpecErrors == InitErrors /\ [][Next]_vars

SpecEncode == InitEncode /\ [][Next]_vars

SpecLines == InitLines /\ [][Next]_vars

SpecHeaders == InitHeaders /\ [][Next]_vars

SpecLength == InitLength /\ [][Next]_vars

SpecClosing == InitClosing /\ [][Next]_vars

SpecVersions == InitVersions /\ [][Next]_vars

SpecFraming == InitFraming /\ [][Next]_vars

SpecDecode == InitDecode /\ [][Next]_vars

\* a round trip: the writer, then the parser and the reads of the body (the
\* header block the writer sends is whole and well formed: parseRequest
\* has no error to return)
RoundTripNext ==
  \/ RoundTripWrite
  \/ Start
  \/ ParseFill
  \/ ParseLine
  \/ ParseOK
  \/ \E p \in HandlerBufSizes : HandlerRead(p)

SpecRoundTrip == InitRoundTrip /\ [][RoundTripNext]_vars

\* a call of writeChunkedBody
ChunkedWriterNext ==
  \/ \E res \in [n : 0..MaxBody, err : {"nil", "eof", "fail"}],
        failAt \in {"none", "size", "data", "crlf"} : ChunkRead(res, failAt)
  \/ \E ok \in BOOLEAN : ChunkFinal(ok)

SpecChunkedWriter == InitChunkedWriter /\ [][ChunkedWriterNext]_vars

\* the listener and its workers
ConcurrentNext ==
  \/ \E ok \in BOOLEAN : Accept(ok)
  \/ \E c \in 1..MaxConns : Worker(c)

SpecConcurrent == InitConcurrent /\ [][ConcurrentNext]_vars

TypeOK ==
  /\ pc \in {"accepted", "parse", "handler", "responded", "closed"}
  /\ requestCount \in Nat
  /\ now \in 0..MaxTime
  /\ writeDeadline \in {NoDeadline} \cup Nat

-----------------------------------------------------------------------------
(* Keep-alive.                                                             *)

\* the peer asked for the connection to be kept: HTTP/1.1 without a
\* connection header equal to "close", or HTTP/1.0 with a connection header
\* equal to "keep-alive", both compared without regard to case
KeepAliveRequested(req) ==
  \/ /\ req.Version = HTTP11Version
     /\ ~(Has(req.Headers, ConnectionHeader)
          /\ ToLower(req.Headers[ConnectionHeader]) = close)
  \/ /\ req.Version = HTTP10Version
     /\ Has(req.Headers, ConnectionHeader)
     /\ ToLower(req.Headers[ConnectionHeader]) = keepalive

\* C1: with keep-alive enabled and fewer than maxKeepAliveRequests requests
\* handled, the step after a response was written enters the parse of another
\* request exactly when the peer asked for the connection to be kept, and
\* closes the connection in every other case.
C1_KeepAliveIff ==
  [][(/\ pc = "responded"
      /\ pc' # "responded"
      /\ srv.enableKeepAlive
      /\ requestCount < srv.maxKeepAliveRequests)
     => IF KeepAliveRequested(request)
          THEN pc' = "parse" /\ hist'.parses = hist.parses + 1
          ELSE pc' = "closed"]_vars

\* a second request is awaited on a connection that has answered one
C1_Witness ==
  /\ pc = "parse"
  /\ srv.enableKeepAlive
  /\ hist.responded = 1
  /\ requestCount < srv.maxKeepAliveRequests

\* C2: with keep-alive enabled the handler is invoked at most
\* maxKeepAliveRequests times on the connection, and once that many requests
\* are handled no further request is read.
C2_MaxKeepAliveRequests ==
  srv.enableKeepAlive =>
    /\ hist.handled <= srv.maxKeepAliveRequests
    /\ requestCount <= srv.maxKeepAliveRequests
    /\ requestCount >= srv.maxKeepAliveRequests => pc \in {"handler", "responded", "closed"}
    /\ hist.parses <= srv.maxKeepAliveRequests

\* the connection is closed at the limit although the last exchange asked
\* for keep-alive
C2_Witness ==
  /\ pc = "closed"
  /\ closeReason = "max-requests"
  /\ hist.handled = srv.maxKeepAliveRequests
  /\ out.keepAlive
  /\ out.resp.failAt = "none"

-----------------------------------------------------------------------------
(* Bodies.                                                                 *)

\* C3: when the handler has read the body of a chunked request, which the
\* peer sent in full, to its end, the bytes it was given are exactly the
\* content bytes of that request's chunks, in order, with none of the chunk
\* framing.
C3_ChunkedBodyDecoded ==
  (/\ pc \in {"handler", "responded"}
   /\ request.IsChunked
   /\ bodyEnd = "eof"
   /\ ~peer.cut) =>
    /\ \A i \in 1..Len(bodyRead) :
         bodyRead[i].part = "data" /\ bodyRead[i].m = headerBuf[1].m
    /\ Len(bodyRead) = headerBuf[1].n

\* the response is of unknown length as the handler returned it
UnknownLength(res) ==
  res.Body.kind # "nil" /\ (res.bodySize < 0 \/ res.Body.kind \in {"stream", "pipe"})

\* C4: a response with a body whose length the handler left unknown is
\* written with transfer-encoding: chunked, without content-length, and with
\* its body in chunk frames ended by the zero-length chunk.
C4_UnknownLengthIsChunked ==
  (out.origin = "handler" /\ out.resp.failAt = "none" /\ UnknownLength(out.returned)) =>
    /\ Has(out.resp.headers, TransferEncodingHeader)
    /\ out.resp.headers[TransferEncodingHeader] = chunked
    /\ ~Has(out.resp.headers, ContentLengthHeader)
    /\ \E sizes \in ReadSplits(Len(out.returned.Body.data), DefaultChunkSize) :
         out.resp.body = ChunkFrames(out.returned.Body.data, sizes)

\* C5: no response is written with both a content-length and a
\* transfer-encoding header, whatever headers the handler set.
C5_NeverBothFramingHeaders ==
  ~(\E k1, k2 \in DOMAIN out.resp.headers :
      ToLower(k1) = ContentLengthHeader /\ ToLower(k2) = TransferEncodingHeader)

-----------------------------------------------------------------------------
(* Failures.                                                               *)

\* C6: when the parse of the first request of a connection fails, a 400 Bad
\* Request response is written, the handler is not invoked, and the
\* connection is closed.
C6_FirstParseFailure ==
  (hist.err # "" /\ requestCount = 0) =>
    /\ pc = "closed"
    /\ out.origin = "engine"
    /\ out.resp.code = 400
    /\ out.resp.text = <<"B","a","d"," ","R","e","q","u","e","s","t">>
    /\ hist.handled = 0
    /\ hist.written = 1

\* the first request had too large a header block and was answered with 400
C6_Witness ==
  /\ pc = "closed"
  /\ requestCount = 0
  /\ hist.err = "headers too large"
  /\ out.resp.code = 400
  /\ out.resp.failAt = "none"

\* C7: when a parse fails on a connection that has handled a request, nothing
\* is written for the failed parse and the connection is closed.
C7_LaterParseFailure ==
  (hist.err # "" /\ requestCount > 0) =>
    /\ pc = "closed"
    /\ out = NoResponse
    /\ hist.written = requestCount

\* the second parse of a connection failed after the first request was answered
C7_Witness ==
  /\ pc = "closed"
  /\ hist.err # ""
  /\ requestCount = 1
  /\ hist.responded = 1
  /\ hist.parses = 2

\* C8: without a handler, and when the handler returns nil, a 500 response is
\* written and the connection is closed with no further request read.
C8_HandlerFault ==
  /\ (~srv.hasHandler /\ requestCount > 0) =>
       /\ pc = "closed"
       /\ out.origin = "engine"
       /\ out.resp.code = 500
       /\ hist.handled = 0
       /\ hist.parses = 1
  /\ hist.nil =>
       /\ pc = "closed"
       /\ out.origin = "engine"
       /\ out.resp.code = 500
       /\ hist.parses = requestCount

\* the handler returned nil for the second request of a connection
C8_Witness ==
  /\ hist.nil
  /\ requestCount = 2
  /\ out.resp.code = 500
  /\ out.resp.failAt = "none"

-----------------------------------------------------------------------------
(* Sequencing.                                                             *)

C10_BodyNeverParsedAsHeader ==
  \A i \in 1..Len(headerBuf) : headerBuf[i].part = "head"

-----------------------------------------------------------------------------
(* The request parser.                                                     *)

\* white space of the request line
White(c) == c \in {" ", "\t", "\n", "\r", "\f"}

\* the first line of the header block the parser has read
FirstLine(hb) ==
  LET c == Chars(hb)
      k == IndexCRLF(c, 1)
  IN  IF k = 0 THEN c ELSE SubSeq(c, 1, k - 1)

\* the positions at which a token of the line starts
TokenStarts(s) == {i \in 1..Len(s) : ~White(s[i]) /\ (i = 1 \/ White(s[i - 1]))}

\* the n-th token of the line
Token(s, n) ==
  LET i == CHOOSE x \in TokenStarts(s) :
             Cardinality({y \in TokenStarts(s) : y < x}) = n - 1
      j == CHOOSE x \in i..Len(s) :
             /\ \A y \in i..x : ~White(s[y])
             /\ x = Len(s) \/ White(s[x + 1])
  IN  SubSeq(s, i, j)

\* the parser has read a header block up to its blank line
Complete(hb) ==
  LET c == Chars(hb)
      n == Len(c)
  IN  \/ c = CRLF
      \/ n >= 4 /\ SubSeq(c, n - 3, n) = CRLF \o CRLF

C12_HeaderTooLarge ==
  Len(headerBuf) > srv.maxHeaderSize =>
    /\ pc = "closed"
    /\ hist.err = "headers too large"
    /\ request = NilRequest
    /\ ~Complete(headerBuf)

\* the bytes of s without the white space around them
Strip(s) ==
  LET black == {i \in 1..Len(s) : ~White(s[i])}
  IN  IF black = {} THEN <<>>
      ELSE SubSeq(s, CHOOSE i \in black : \A j \in black : i <= j,
                     CHOOSE i \in black : \A j \in black : j <= i)

\* the lines between the request line and the blank line
HeaderLines(hb) ==
  LET lines == SplitCRLF(Chars(hb))
  IN  [i \in 1..(Len(lines) - 3) |-> lines[i + 1]]

\* the lines that are headers: those with a colon
IsHeader(line) == \E i \in 1..Len(line) : line[i] = ":"

Colon(line) == CHOOSE i \in 1..Len(line) : line[i] = ":" /\ \A j \in 1..(i - 1) : line[j] # ":"

NameOf(line) == ToLower(Strip(SubSeq(line, 1, Colon(line) - 1)))

ValueOf(line) == Strip(SubSeq(line, Colon(line) + 1, Len(line)))

\* a header of this name is among the lines ls, and the value of its last
\* occurrence
Sent(ls, name) ==
  \E i \in 1..Len(ls) : IsHeader(ls[i]) /\ NameOf(ls[i]) = name

LastSent(ls, name) ==
  LET at == {i \in 1..Len(ls) : IsHeader(ls[i]) /\ NameOf(ls[i]) = name}
  IN  ValueOf(ls[CHOOSE i \in at : \A j \in at : j <= i])

\* C13: the header map of a parsed request has as keys the names on the wire
\* in lower case and without the white space around them, and holds for each
\* the value, without the white space around it, of its last occurrence.
C13_HeaderMap ==
  request # NilRequest =>
    LET ls == HeaderLines(headerBuf)
    IN  /\ \A name \in DOMAIN request.Headers :
             /\ Sent(ls, name)
             /\ name = ToLower(name)
             /\ name = Strip(name)
             /\ request.Headers[name] = LastSent(ls, name)
        /\ \A i \in 1..Len(ls) :
             IsHeader(ls[i]) => NameOf(ls[i]) \in DOMAIN request.Headers

\* a header sent twice, in two letter cases, is held once with its last value
C13_Witness ==
  /\ pc = "handler"
  /\ Chars(headerBuf) = ReqLine11 \o DupHeaderA \o DupHeaderB \o CRLF
  /\ DOMAIN request.Headers = {<<"x","-","a">>}
  /\ request.Headers[<<"x","-","a">>] = <<"2">>

\* the value is a decimal integer: an optional sign and one or more digits
IsDecimal(v) ==
  LET digits == IF v # <<>> /\ v[1] \in {"+", "-"} THEN Tail(v) ELSE v
  IN  /\ digits # <<>>
      /\ \A i \in 1..Len(digits) :
           digits[i] \in {"0","1","2","3","4","5","6","7","8","9"}

\* the largest declared length the messages of the peer carry
MaxDeclared == 9

\* the value is the numeral of a length
IsLength(v) == \E n \in 0..MaxDeclared : FormatInt(n) = v

LengthOf(v) == CHOOSE n \in 0..MaxDeclared : FormatInt(n) = v

\* the i-th byte the peer sent after the header block
Follows(x, i) ==
  /\ x.m = headerBuf[Len(headerBuf)].m
  /\ x.k = headerBuf[Len(headerBuf)].k + i

\* C14: a request with a valid content-length N, with or without a
\* transfer-encoding header, has the declared size N and is not chunked; its
\* body stream gives the bytes that follow the header block in their order,
\* never more than N of them, and all N when it is read to its end.
C14_ContentLengthBody ==
  LET ls == HeaderLines(headerBuf)
      v  == LastSent(ls, ContentLengthHeader)
      N  == LengthOf(v)
  IN  (request # NilRequest /\ Sent(ls, ContentLengthHeader) /\ IsLength(v)) =>
        /\ request.BodySize = N
        /\ ~request.IsChunked
        /\ Len(bodyRead) <= N
        /\ \A i \in 1..Len(bodyRead) : Follows(bodyRead[i], i)
        /\ (pc \in {"handler", "responded"} /\ bodyEnd = "eof" /\ ~peer.cut)
             => Len(bodyRead) = N

\* the body of a request with content-length and transfer-encoding was read
\* to its end
C14_Witness ==
  /\ pc = "handler"
  /\ bodyEnd = "eof"
  /\ Sent(HeaderLines(headerBuf), TransferEncodingHeader)
  /\ Sent(HeaderLines(headerBuf), ContentLengthHeader)
  /\ Chars(bodyRead) = <<"h","i">>

\* C15: a request whose content-length is not a decimal integer fails with
\* the invalid-content-length error: there is no request, the handler is not
\* invoked, and a transfer-encoding header makes no difference.
C15_InvalidContentLength ==
  (/\ Complete(headerBuf)
   /\ Cardinality(TokenStarts(FirstLine(headerBuf))) = 3
   /\ Sent(HeaderLines(headerBuf), ContentLengthHeader)
   /\ ~IsDecimal(LastSent(HeaderLines(headerBuf), ContentLengthHeader))) =>
    /\ pc = "closed"
    /\ hist.err = "invalid content-length"
    /\ request = NilRequest
    /\ hist.handled = requestCount
    /\ hist.parses = requestCount + 1

\* a request with content-length: x and transfer-encoding: chunked was refused
C15_Witness ==
  /\ pc = "closed"
  /\ hist.err = "invalid content-length"
  /\ Sent(HeaderLines(headerBuf), TransferEncodingHeader)
  /\ out.resp.code = 400

\* C16: a request with neither content-length nor transfer-encoding: chunked
\* has the declared size 0, and a read of its body stream gives no byte,
\* reports the end of the stream and takes nothing from the connection.
C16_EmptyBody ==
  [][(/\ request' # NilRequest
      /\ request' # request \/ bodyRead' # bodyRead \/ bodyEnd' # bodyEnd
      /\ LET ls == HeaderLines(headerBuf')
         IN  /\ ~Sent(ls, ContentLengthHeader)
             /\ ~(/\ Sent(ls, TransferEncodingHeader)
                  /\ ToLower(LastSent(ls, TransferEncodingHeader)) = chunked))
     => /\ request'.BodySize = 0
        /\ ~request'.IsChunked
        /\ bodyRead' = <<>>
        /\ bodyEnd' \in {"", "eof"}
        /\ bodyEnd' # bodyEnd => (conn' = conn /\ reader' = reader)]_vars

\* the handler read the body of a request with transfer-encoding: gzip while
\* more bytes of the peer were waiting
C16_Witness ==
  /\ pc = "handler"
  /\ bodyEnd = "eof"
  /\ Sent(HeaderLines(headerBuf), TransferEncodingHeader)
  /\ request.Body = "empty"
  /\ conn # <<>>

-----------------------------------------------------------------------------
(* Round trips.                                                            *)

\* the body B the writer of a round trip was given
WrittenBody == (CHOOSE r \in replies : TRUE).Body.data

\* C17: a body written by the chunked writer and read to its end through
\* the chunked reader of a request is read as the body that was written.
C17_ChunkedRoundTrip ==
  (pc = "handler" /\ request.IsChunked /\ bodyEnd = "eof") =>
    Chars(bodyRead) = WrittenBody

\* C18: the body bytes written for a response of known length with body B,
\* read through the body stream of a request with content-length len(B),
\* are B: never more than a prefix of B while reading, all of B at the end.
C18_FixedLengthRoundTrip ==
  (pc = "handler" /\ request.Body = "limit") =>
    /\ request.BodySize = Len(WrittenBody)
    /\ Len(bodyRead) <= Len(WrittenBody)
    /\ Chars(bodyRead) = SubSeq(WrittenBody, 1, Len(bodyRead))
    /\ bodyEnd = "eof" => Chars(bodyRead) = WrittenBody

\* a body of the longest length with a line break in it was read back whole
C18_Witness ==
  /\ pc = "handler"
  /\ request.Body = "limit"
  /\ bodyEnd = "eof"
  /\ Len(WrittenBody) = MaxBody
  /\ WrittenBody[2] = "\r" /\ WrittenBody[3] = "\n"
  /\ Chars(bodyRead) = WrittenBody

-----------------------------------------------------------------------------
(* The connection headers of a response.                                   *)

\* the keep-alive hint for n more requests
KeepAliveHint(n) ==
  <<"t","i","m","e","o","u","t","=">> \o FormatNat(srv.keepAliveTimeout, 10)
    \o <<","," ","m","a","x","=">> \o FormatNat(n, 10)

-----------------------------------------------------------------------------
(* Deadlines.                                                              *)

\* C20: every response the worker writes, the 400 and 500 responses of
\* sendErrorResponse included, is written with a write deadline set on the
\* connection, so that a peer that does not read cannot hold the worker.
C20_EveryWriteUnderDeadline ==
  [][hist'.written > hist.written => writeDeadline' # NoDeadline]_vars

-----------------------------------------------------------------------------
(* The keep-alive limits.                                                  *)

\* C21: on a kept-alive connection that has been idle for longer than
\* keepAliveTimeout since its last exchange, no further request is handed to
\* the handler.
C21_IdleTimeoutEnforced ==
  [][(/\ srv.enableKeepAlive
      /\ pc = "parse"
      /\ hist.responded >= 1
      /\ now - startTime > srv.keepAliveTimeout)
     => hist'.handled = hist.handled]_vars

-----------------------------------------------------------------------------
(* The status line.                                                        *)

-----------------------------------------------------------------------------
(* Write failures.                                                         *)

\* C26: when a write of a response fails, at the status line, a header, the
\* blank line or the body, nothing after the failing write is sent, the
\* step that wrote it closes the connection, and from then on no request is
\* parsed, no handler is called and nothing is written on the connection.
C26_WriteFailureCloses ==
  [][(out'.resp.failAt # "none") =>
       /\ pc' = "closed"
       /\ out'.origin = "handler" => closeReason' = "write-error"
       /\ out'.resp.failAt = "status" => out'.resp.headers = EmptyMap
       /\ out'.resp.failAt \in {"status", "header", "blank"} => out'.resp.body = <<>>
       /\ out.resp.failAt # "none" =>
            /\ hist'.parses = hist.parses
            /\ hist'.handled = hist.handled
            /\ hist'.written = hist.written]_vars

\* the second response on a kept-alive connection failed while its body was
\* sent, and the connection is closed
C26_Witness ==
  /\ pc = "closed"
  /\ closeReason = "write-error"
  /\ out.origin = "handler"
  /\ out.resp.failAt = "body"
  /\ hist.handled = 2
  /\ hist.responded = 1

-----------------------------------------------------------------------------
(* The chunked request body.                                               *)

\* C27: the body reader of a chunked request takes no byte of a later
\* message: all it has delivered belongs to the message whose header block
\* was parsed.
C27_ChunkedStopsAtTerminator ==
  (request # NilRequest /\ request.IsChunked) =>
    \A i \in 1..Len(bodyRead) : bodyRead[i].m = headerBuf[1].m

IsHexDigit(c) ==
  c \in {"0","1","2","3","4","5","6","7","8","9",
         "a","b","c","d","e","f","A","B","C","D","E","F"}

\* the first chunk-size line of a body, without its extension
ChunkSizeLine(body) ==
  LET k    == IndexCRLF(body, 1)
      line == IF k = 0 THEN body ELSE SubSeq(body, 1, k - 1)
      semi == IndexByte(line, ";")
  IN  IF semi = 0 THEN line ELSE SubSeq(line, 1, semi - 1)

\* C28: no byte of a chunked body is delivered to the handler when its first
\* chunk-size line is not a hexadecimal number.
C28_InvalidChunkSize ==
  (request # NilRequest /\ request.IsChunked /\ bodyRead # <<>>) =>
    LET line == ChunkSizeLine(Chars(bodyRead \o reader \o conn))
    IN  line # <<>> /\ \A i \in 1..Len(line) : IsHexDigit(line[i])

\* C30: the declared body size of a parsed request is not negative, except
\* for the size -1 of a chunked request.
C30_DeclaredSize ==
  request # NilRequest =>
    \/ request.BodySize >= 0
    \/ request.BodySize = 0 - 1 /\ request.IsChunked

-----------------------------------------------------------------------------
(* The chunked writer.                                                     *)

\* the chunks for the reads that returned bytes, in the order of the reads
RECURSIVE DataChunks(_, _)
DataChunks(data, reads) ==
  IF reads = <<>> THEN <<>>
  ELSE LET n == reads[1].n
       IN  (IF n > 0
              THEN FormatNat(n, 16) \o CRLF \o SubSeq(data, 1, n) \o CRLF
              ELSE <<>>)
             \o DataChunks(SubSeq(data, n + 1, Len(data)), Tail(reads))

\* C29: while no write fails, what writeChunkedBody has written is one chunk
\* "<hex length>\r\n<bytes>\r\n" for each read that returned bytes, in read
\* order, and nothing for an empty read; "0\r\n\r\n" follows once, after a
\* read returned end-of-stream, and does not follow when a read failed.
C29_ChunkedWriter ==
  LET w        == chunkWriter
      expected == DataChunks(w.data, w.reads)
      last     == w.reads[Len(w.reads)]
  IN  /\ w.pc \in {"loop", "final"} => w.conn = expected
      /\ w.pc = "final" => last.err = "eof"
      /\ w.pc = "done" =>
           /\ last.err = "eof"
           /\ \A i \in 1..(Len(w.reads) - 1) : w.reads[i].err = "nil"
           /\ w.conn = expected \o <<"0","\r","\n","\r","\n">>
      /\ (w.pc = "failed" /\ w.err = "read") =>
           /\ last.err = "fail"
           /\ w.conn = expected

\* a body of three bytes was written in two chunks, with an empty read
\* between the reads that returned bytes
C29_Witness ==
  /\ chunkWriter.pc = "done"
  /\ Len(chunkWriter.data) = 3
  /\ Len(chunkWriter.reads) = 3
  /\ chunkWriter.reads[1].n = 1
  /\ chunkWriter.reads[2] = [n |-> 0, err |-> "nil"]
  /\ chunkWriter.reads[3] = [n |-> 2, err |-> "eof"]

-----------------------------------------------------------------------------
(* Concurrent connections.                                                 *)

\* connection c has completed exactly one request and is closed
OneRequestDone(c) ==
  LET w == pool.workers[c]
  IN  /\ w.pc = "closed"
      /\ w.requestCount = 1
      /\ Len(w.trace) = 1
      /\ w.trace[1].code = 200
      /\ ~w.trace[1].failed

\* C24: when every one of the N clients has completed one request on its own
\* connection, the counter that the handler increments once per call is N.
C24_SharedCounter ==
  (pool.handler = "counter" /\ \A c \in 1..MaxConns : OneRequestDone(c)) =>
    pool.counter = MaxConns

\* the worker of a connection whose peer follows script, run with no other
\* connection in the pool
RECURSIVE RunAlone(_, _)
RunAlone(p, fuel) ==
  IF p.workers[1].pc = "closed" \/ fuel = 0 THEN p
  ELSE RunAlone(WorkerStep(srv, p, 1), fuel - 1)

Alone(script) ==
  RunAlone([listening |-> TRUE, accepted |-> 1, acceptErrors |-> 0, handler |-> "pure",
            counter |-> 0,
            workers |-> [c \in 1..MaxConns |->
                           IF c = 1 THEN [NoWorker(script) EXCEPT !.pc = "parse"]
                           ELSE NoWorker(<<>>)]],
           4 * (Len(script) + 1)).workers[1]

IsPrefix(a, b) == Len(a) <= Len(b) /\ a = SubSeq(b, 1, Len(a))

-----------------------------------------------------------------------------
(* Header lines without a colon, and the version token.                    *)

\* a line between the request line and the blank line that has no colon
HasNoColonLine(ls) == \E i \in 1..Len(ls) : ~IsHeader(ls[i])

\* C31: a header line without a colon never makes the parse fail: the line is
\* skipped and adds no entry to the header map, and the lines with a colon
\* before and after it are stored as usual.
C31_NoColonLineSkipped ==
  LET ls == HeaderLines(headerBuf)
  IN  (Complete(headerBuf) /\ Len(headerBuf) > 2 /\ HasNoColonLine(ls)) =>
        /\ (hist.err # "") =>
              \/ Cardinality(TokenStarts(FirstLine(headerBuf))) # 3
              \/ /\ Sent(ls, ContentLengthHeader)
                 /\ ~IsDecimal(LastSent(ls, ContentLengthHeader))
        /\ (request # NilRequest) =>
              /\ DOMAIN request.Headers =
                   {NameOf(ls[i]) : i \in {j \in 1..Len(ls) : IsHeader(ls[j])}}
              /\ \A name \in DOMAIN request.Headers :
                   request.Headers[name] = LastSent(ls, name)

\* a request with a line without a colon between two headers was parsed, and
\* its header map holds the two headers only
C31_Witness ==
  /\ pc = "handler"
  /\ Chars(headerBuf) = ReqLine11 \o DupHeaderA \o NoColonLine \o HeaderB \o CRLF
  /\ DOMAIN request.Headers = {<<"x","-","a">>, <<"x","-","b">>}
  /\ request.Headers[<<"x","-","b">>] = <<"2">>
  /\ hist.err = ""

\* C37: every request handed to the handler has the version HTTP/1.0 or
\* HTTP/1.1.
C37_VersionSupported ==
  (pc = "handler" /\ request # NilRequest) =>
    request.Version \in {HTTP10Version, HTTP11Version}



-----------------------------------------------------------------------------
(* The bytes of the connection between two parses.                         *)

\* C32: parsing takes from the connection exactly the bytes of the header
\* block: the bytes received after the blank line stay available, to the body
\* stream and then to the next parse, and no received byte is lost between
\* two parses.
C32_NoByteLost ==
  [][/\ (peer' = peer /\ pc = "parse" /\ pc' \in {"parse", "handler"}) =>
          headerBuf' \o reader' \o conn' = headerBuf \o reader \o conn
     /\ (pc = "responded" /\ pc' = "parse") =>
          reader' \o conn' = reader \o conn]_vars



-----------------------------------------------------------------------------
(* The connection header of the handler's response.                        *)

\* the header map h has a connection header, in any letter case, of value v
ConnectionSays(h, v) ==
  \E k \in DOMAIN h : ToLower(k) = ConnectionHeader /\ ToLower(h[k]) = v

\* C33: when the response the handler returned carries 'Connection: close',
\* the response is written without advertising keep-alive and the connection
\* is closed after it, even if the request asked for keep-alive.
C33_HandlerForcesClose ==
  (out.origin = "handler" /\ ConnectionSays(out.returned.Headers, close)) =>
    /\ ~out.keepAlive
    /\ ~ConnectionSays(out.resp.headers, keepalive)
    /\ pc = "closed" => closeReason # "max-requests"



-----------------------------------------------------------------------------
(* The size of a request.                                                  *)

\* the content-length a complete header block declares, 0 if it has none
DeclaredLength(hb) ==
  LET ls == HeaderLines(hb)
  IN  IF Sent(ls, ContentLengthHeader) /\ IsLength(LastSent(ls, ContentLengthHeader))
        THEN LengthOf(LastSent(ls, ContentLengthHeader))
        ELSE 0

\* C34: a request whose header bytes plus declared content-length are more
\* than maxRequestSize is answered with an error response and the connection
\* is closed; its handler is never invoked.
C34_MaxRequestSizeEnforced ==
  (/\ Complete(headerBuf)
   /\ Len(headerBuf) > 2
   /\ pc # "parse"
   /\ Len(headerBuf) + DeclaredLength(headerBuf) > srv.maxRequestSize) =>
    /\ pc = "closed"
    /\ request = NilRequest
    /\ out.origin = "engine"



-----------------------------------------------------------------------------
(* Handler calls and the request count.                                    *)

\* C35: the handler is invoked exactly once for each request that parsed and
\* never for a parse that failed; the request count goes up by one for each
\* parsed request and never down; after a handler fault or a write failure
\* the handler is not invoked again.
C35_HandlerOncePerRequest ==
  [][(requestCount' # requestCount \/ hist' # hist \/ pc' # pc) =>
       LET parsed == request = NilRequest /\ request' # NilRequest
       IN  /\ requestCount' = requestCount + (IF parsed THEN 1 ELSE 0)
           /\ hist'.handled =
                hist.handled + (IF parsed /\ srv.hasHandler THEN 1 ELSE 0)
           /\ (pc # "handler" /\ pc' = "handler") <=> (parsed /\ srv.hasHandler)
           /\ hist'.err # hist.err => ~parsed
           /\ hist'.handled <= requestCount'
           /\ (pc = "closed" \/ hist.nil \/ out.resp.failAt # "none") =>
                hist'.handled = hist.handled /\ pc' = "closed"]_vars

\* two requests were parsed and handled, the handler returned nil for the
\* second, and the connection was closed with the count at two
C35_Witness ==
  /\ pc = "closed"
  /\ requestCount = 2
  /\ hist.handled = 2
  /\ hist.parses = 2
  /\ hist.nil



-----------------------------------------------------------------------------
(* The configuration.                                                      *)

\* C36: the configuration of the server is read-only once it is constructed:
\* no step of parsing, handling, writing or of the keep-alive decision changes
\* a field of it.
C36_ConfigurationReadOnly ==
  [][/\ srv' = srv
     /\ srv' \in {NewHTTPServer(cfg) : cfg \in Configs}]_vars

\* a connection served two requests under the small limits and was closed at
\* the limit on requests, and the server holds the values it was built with
C36_Witness ==
  /\ pc = "closed"
  /\ closeReason = "max-requests"
  /\ hist.responded = 2
  /\ srv = NewHTTPServer(Limited)
  /\ srv.maxKeepAliveRequests = MaxKeepAlive



-----------------------------------------------------------------------------
(* The content-length of a response.                                       *)

\* C38: in every response written with content-length framing the value of
\* the content-length header is the number of body bytes written after the
\* blank line: what is left of a seekable body from its current position,
\* all that a body that cannot seek still gives, and 0 without a body.
C38_ContentLengthMatchesBody ==
  (/\ out.origin # "none"
   /\ out.resp.failAt = "none"
   /\ Has(out.resp.headers, ContentLengthHeader)) =>
    LET v == out.resp.headers[ContentLengthHeader]
        b == out.returned.Body
    IN  /\ v # <<>>
        /\ \A i \in 1..Len(v) : IsDigit(v[i])
        /\ DecVal(v) = Len(out.resp.body)
        /\ out.origin = "handler" =>
             /\ b.kind \in {"nil", "seeker", "stream"}
             /\ out.resp.body = SubSeq(b.data, b.pos + 1, Len(b.data))
        /\ out.origin = "engine" => out.resp.body = out.resp.text

\* a seekable body of three bytes, one of them read by the handler, was
\* written with content-length 2 and its last two bytes
C38_Witness ==
  /\ out.origin = "handler"
  /\ out.resp.failAt = "none"
  /\ out.returned.Body.kind = "seeker"
  /\ out.returned.Body.pos = 1
  /\ out.resp.headers[ContentLengthHeader] = <<"2">>
  /\ out.resp.body = <<"o","k">>



-----------------------------------------------------------------------------
(* After keep-alive was advertised.                                        *)

\* C39: after a response written with connection: keep-alive the server goes
\* on to read another request on the connection: it does not close the
\* connection of its own accord right after it advertised keep-alive, and in
\* particular not after the response to the maxKeepAliveRequests-th request.
C39_KeepAliveThenRead ==
  [][(/\ pc = "responded"
      /\ pc' # "responded"
      /\ out.origin = "handler"
      /\ Has(out.resp.headers, ConnectionHeader)
      /\ out.resp.headers[ConnectionHeader] = keepalive
      /\ now - startTime <= srv.keepAliveTimeout)
       => pc' = "parse"]_vars



-----------------------------------------------------------------------------
(* The error responses of the engine.                                      *)

\* C40: every error response of the engine (400 or 500) has the version
\* HTTP/1.1, connection: close, a content-length equal to the length of its
\* status text and that text as its body, and it is the last thing written
\* on the connection: after it no request is read, no handler is called and
\* nothing is written.
C40_ErrorResponseIsLast ==
  [][out'.origin = "engine" =>
       LET w == out'.resp
       IN  /\ w.code \in {StatusBadRequest, StatusInternalServerError}
           /\ w.version = HTTP11Version
           /\ w.statusLine = HTTP11Version \o <<" ">> \o FormatNat(w.code, 10)
                               \o <<" ">> \o w.text \o CRLF
           /\ w.failAt \in {"none", "body", "blank"} =>
                /\ w.headers[ConnectionHeader] = close
                /\ ~Has(w.headers, KeepAliveHeader)
                /\ ~Has(w.headers, TransferEncodingHeader)
                /\ DecVal(w.headers[ContentLengthHeader]) = Len(w.text)
           /\ w.failAt = "none" => w.body = w.text
           /\ pc' = "closed"
           /\ out.origin = "engine" =>
                /\ out' = out
                /\ hist' = hist
                /\ requestCount' = requestCount]_vars

\* the second request of a connection was answered by the engine with a
\* complete 500 response, after a response of the handler to the first
C40_Witness ==
  /\ out.origin = "engine"
  /\ out.resp.code = StatusInternalServerError
  /\ out.resp.failAt = "none"
  /\ out.resp.body = <<"H","a","n","d","l","e","r"," ","r","e","t","u","r","n","e","d"," ","n","i","l">>
  /\ out.resp.headers[ContentLengthHeader] = <<"2","0">>
  /\ hist.written = 2
  /\ pc = "closed"


=============================================================================
